---- MODULE Spec2Model ----
(***************************************************************************)
(* A model of the 42-radio broadcast engine (Convex backend).              *)
(*                                                                         *)
(* Convex queries and mutations are serializable transactions, so each     *)
(* query/mutation handler is one atomic action here.  Convex actions       *)
(* (checkAndAdvanceTrack, advanceToNextTrackWithContext, maintainQueue,    *)
(* skipCurrentTrack, findBestMatch, ...) are NOT transactions: they are    *)
(* modelled as processes whose steps are the queries and mutations they    *)
(* run, with arbitrary interleaving in between.                            *)
(*                                                                         *)
(* Tables are sequences of rows in insertion (_creationTime) order.        *)
(* Timestamps are seconds since the start of the run.                      *)
(***************************************************************************)
EXTENDS Integers, Sequences, FiniteSets, TLC

(***************************************************************************)
(* Bounds of the model                                                     *)
(***************************************************************************)
\* catalog ids (discogsId) offered by discovery are 1..MaxId
MaxId == 2
\* the history table holds at most MaxHistory rows
MaxHistory == 3
\* a discovery run processes at most MaxBatch candidates
MaxBatch == 2
\* at most MaxActive of the actions in Procs are in flight at a time
MaxActive == 2
\* the clock makes at most MaxSmallTicks steps of SmallTick within a day
MaxSmallTicks == 2
\* ... and at most MaxDays jumps of one day
MaxDays == 1

\* The source's window sizes are far beyond what can be enumerated; they are
\* scaled down, keeping their order (excludeRecent < lastNTracks < take).
\* lastNTracks, 100 in radio.ts:516 (and radio.ts:432)
LastNTracks == 2
\* excludeRecent, 50 in radio.ts:690
ExcludeRecent == 1
\* the tier-2 scan .take(200) of radio.ts:611
HistoryTake == 3
\* TARGET_QUEUE_SIZE, 40 in queueManager.ts:10 and radio.ts:847
TARGET_QUEUE_SIZE == 2
\* MAX_QUEUE_SIZE, 500 in queueManager.ts:11 and radio.ts:848
MAX_QUEUE_SIZE == 3

(***************************************************************************)
(* Program constants                                                       *)
(***************************************************************************)
\* hoursBack: 24 (radio.ts:689)
HoursBack == 24
\* (currentTrack.durationSeconds || 180), trackMonitor.ts:33
DefaultDurationSeconds == 180
\* The unit of time.  The code counts milliseconds (Date.now(), "* 1000");
\* the model counts seconds, as 90 days of milliseconds are beyond TLC's
\* integers.  Every time span the code handles is a whole number of seconds.
Second == 1
\* one clock step of the model: 90 s, half the default duration
SmallTick == 90 * Second
\* one day
Day == 24 * 60 * 60 * Second

\* DISCOVERY_BATCH_SIZE (queueManager.ts:12)
DISCOVERY_BATCH_SIZE == 150
\* "count: 100, // Large emergency batch" (queueManager.ts:181)
EmergencyBatch == 100
\* "count: 50" of the checker's emergency replenishment (trackMonitor.ts:72)
CheckerEmergencyBatch == 50

Ids == 1..MaxId
\* durationSeconds of the video matched to a catalog id: id 1 has none
\* (0, which the code replaces by the default), the others last 90 s
DurationOf(d) == IF d = 1 THEN 0 ELSE 90

\* the callers of advanceToNextTrackWithContext: the expiration checker
\* (cron, 30 s), the health controller (cron, 2 h) and a skip request
Procs == {"checker", "health", "skip"}
\* the scheduled discovery runs: "morning-track-discovery", with
\* forceRefresh, and "noon-track-discovery", without (crons.ts:46-59)
Crons == {"morning", "noon"}
\* every action that runs as a process
Actors == Procs \cup Crons \cup {"clear", "force", "cleanup"}
\* the users a skip request can come from, named by their role
Users == {"controller", "listener"}
\* the ids a request can carry: those and the id of a row that is gone
UserIds == Users \cup {"deleted"}

VARIABLES
  now,           \* Date.now()
  currentTrack,  \* table currentTrack
  queue,         \* table queue
  history,       \* table history
  feedback,      \* table feedback
  last,          \* the handler that settled last: [op, arg, ret]
  pc,            \* where each running action (process) stands
  loc,           \* the local variables of each running action
  youtubeApiUsage,  \* table youtubeApiUsage
  youtubeCache,     \* table youtubeCache
  lpc,           \* where each running provider lookup stands
  lloc,          \* the local variables of each running provider lookup
  started,       \* the number of provider lookups started so far
  users,         \* table users
  player         \* the state of one client's RadioPlayer component

radioVars == <<now, currentTrack, queue, history, feedback>>
procVars == <<pc, loc>>
\* what no handler of the broadcast engine writes
lookupVars == <<youtubeApiUsage, youtubeCache, lpc, lloc, started, users,
                player>>
vars == <<now, currentTrack, queue, history, feedback, last, pc, loc,
          youtubeApiUsage, youtubeCache, lpc, lloc, started, users, player>>

Null == "null"

(***************************************************************************)
(* Helpers on tables                                                       *)
(***************************************************************************)
Max(a, b) == IF a > b THEN a ELSE b
Min(a, b) == IF a < b THEN a ELSE b

\* rows q[i] with i in S removed
RemoveAt(s, i) == [j \in 1..(Len(s) - 1) |-> IF j < i THEN s[j] ELSE s[j + 1]]

\* a faulty variant of QueueFirst: the newest row of the queue
QueueNewest(q) == Len(q)

\* .query("queue").withIndex("by_createdAt").order("asc").first():
\* the row with the smallest createdAt, the earliest inserted among equals
QueueFirst(q) ==
  CHOOSE i \in 1..Len(q) :
    \A j \in 1..Len(q) :
      \/ q[i].createdAt < q[j].createdAt
      \/ (q[i].createdAt = q[j].createdAt /\ i <= j)

\* a faulty variant of existingInQueue: the duplicate is never found
missingInQueue(q, d) == FALSE

\* .query("queue").filter(discogsId = d).first() exists
existingInQueue(q, d) == \E i \in 1..Len(q) : q[i].discogsId = d

\* a faulty variant of isTrackInRecentHistory: the whole history is scanned
isTrackInAllHistory(h, d, lastNTracks) ==
  \E i \in 1..Len(h) : h[i].discogsId = d

\* isTrackInRecentHistory: .query("history").order("desc").take(lastNTracks)
\* then .find(track.discogsId = d)
isTrackInRecentHistory(h, d, lastNTracks) ==
  LET recentHistory == SubSeq(h, Max(1, Len(h) - lastNTracks + 1), Len(h))
  IN  \E i \in 1..Len(recentHistory) : recentHistory[i].discogsId = d

\* a faulty variant of getRandomHistoryTrack: the second tier is missing
getRandomHistoryTrackTier1(h, t, hoursBack, excludeRecent) ==
  {i \in 1..Len(h) : h[i].playedAt < t - (hoursBack * 60 * 60 * Second)}

\* a faulty variant of getRandomHistoryTrack: the two tiers are pooled
getRandomHistoryTrackPooled(h, t, hoursBack, excludeRecent) ==
  {i \in 1..Len(h) :
     \/ h[i].playedAt < t - (hoursBack * 60 * 60 * Second)
     \/ (i > Len(h) - HistoryTake /\ i <= Len(h) - excludeRecent)}

\* getRandomHistoryTrack: the rows (indices into history) Math.random()
\* chooses among; {} when the query returns null
getRandomHistoryTrack(h, t, hoursBack, excludeRecent) ==
  LET cutoffTime == t - (hoursBack * 60 * 60 * Second)
      eligibleTracks == {i \in 1..Len(h) : h[i].playedAt < cutoffTime}
      \* allHistory = newest HistoryTake rows; slice(excludeRecent) drops
      \* the newest excludeRecent of them
      fallbackTracks ==
        {i \in 1..Len(h) : /\ i > Len(h) - HistoryTake
                           /\ i <= Len(h) - excludeRecent}
  IN  IF eligibleTracks = {} THEN fallbackTracks ELSE eligibleTracks

(***************************************************************************)
(* Initial state: an empty deployment                                      *)
(***************************************************************************)
LocInit == [branch |-> Null, wret |-> Null, dleft |-> 0, dcount |-> 0,
            force |-> FALSE, dfrom |-> Null, track |-> 0,
            user |-> Null, todo |-> <<>>, derrors |-> 0,
            dadded |-> 0, dskipped |-> 0, dseen |-> 0, dinserted |-> 0,
            originalSize |-> 0]

\* the provider lookups (findBestMatch, searchYouTube) that may overlap
Lookups == {"m1", "m2"}

LLocInit == [h |-> Null, a |-> 0, seen |-> <<>>, key |-> Null, i |-> 0,
             hit |-> 0]

\* the RadioPlayer before its first track: no intro playing or played, the
\* hidden audio element without source, no stall timer pending
PlayerInit ==
  [track |-> 0, transitionAudioUrl |-> FALSE,
   isPlayingTransition |-> FALSE, transitionEnded |-> FALSE,
   audio |-> "empty", paused |-> TRUE, timers |-> {}]

\* no track, no queue, no history, nobody running
RadioInit ==
  /\ currentTrack = <<>>
  /\ queue = <<>>
  /\ history = <<>>
  /\ feedback = {}
  /\ pc = [p \in Actors |-> "idle"]
  /\ loc = [p \in Actors |-> LocInit]
  /\ users = [u \in Users |-> [role |-> u]]
  /\ player = PlayerInit

\* no provider lookup running
LookupIdle ==
  /\ lpc = [p \in Lookups |-> "idle"]
  /\ lloc = [p \in Lookups |-> LLocInit]
  /\ started = 0

Init ==
  /\ now = 0
  /\ RadioInit
  /\ last = [op |-> "init", arg |-> 0, ret |-> Null]
  /\ youtubeApiUsage = <<>>
  /\ youtubeCache = <<>>
  /\ LookupIdle

(***************************************************************************)
(* Time                                                                    *)
(***************************************************************************)
\* a short step of the clock
TickSmall ==
  /\ (now % Day) \div SmallTick < MaxSmallTicks
  /\ now' = now + SmallTick
  /\ last' = [op |-> "tick", arg |-> 0, ret |-> Null]
  /\ UNCHANGED <<currentTrack, queue, history, feedback, pc, loc>>
  /\ UNCHANGED lookupVars

\* a day passes
TickDay ==
  /\ now \div Day < MaxDays
  /\ now' = now + Day
  /\ last' = [op |-> "tick", arg |-> 0, ret |-> Null]
  /\ UNCHANGED <<currentTrack, queue, history, feedback, pc, loc>>
  /\ UNCHANGED lookupVars

(***************************************************************************)
(* radio.ts: addToQueue (mutation)                                         *)
(***************************************************************************)
addToQueue(d) ==
  /\ IF existingInQueue(queue, d)
       THEN /\ UNCHANGED queue
            /\ last' = [op |-> "addToQueue", arg |-> d, ret |-> "existing"]
       ELSE IF isTrackInRecentHistory(history, d, LastNTracks)
         THEN /\ UNCHANGED queue
              /\ last' = [op |-> "addToQueue", arg |-> d, ret |-> Null]
         ELSE /\ queue' = Append(queue, [discogsId |-> d,
                                         durationSeconds |-> DurationOf(d),
                                         createdAt |-> now])
              /\ last' = [op |-> "addToQueue", arg |-> d, ret |-> "inserted"]
  /\ UNCHANGED <<now, currentTrack, history, feedback>>

(***************************************************************************)
(* radio.ts: addTrackManually (mutation); u is the optional userId         *)
(***************************************************************************)
addTrackManually(d, u) ==
  /\ IF u # Null /\ u # "controller"
       THEN /\ UNCHANGED queue
            /\ last' = [op |-> "addTrackManually", arg |-> d,
                        ret |-> "Only controllers can manually add tracks"]
       ELSE IF existingInQueue(queue, d)
         THEN /\ UNCHANGED queue
              /\ last' = [op |-> "addTrackManually", arg |-> d,
                          ret |-> "Track already in queue"]
         ELSE IF isTrackInRecentHistory(history, d, LastNTracks)
           THEN /\ UNCHANGED queue
                /\ last' = [op |-> "addTrackManually", arg |-> d,
                            ret |-> "Track played recently"]
           ELSE /\ queue' = Append(queue, [discogsId |-> d,
                                           durationSeconds |-> DurationOf(d),
                                           createdAt |-> now])
                /\ last' = [op |-> "addTrackManually", arg |-> d,
                            ret |-> "inserted"]
  /\ UNCHANGED <<now, currentTrack, history, feedback>>

(***************************************************************************)
(* radio.ts: removeFromQueue (mutation), run for each row by clearQueue    *)
(* (queueManager.ts:346-348) and testHistoryFallback                       *)
(***************************************************************************)
\* a faulty variant of removeFromQueue: the id is not checked to be an id of
\* the queue table, and the row of currentTrack is deleted
removeFromQueueAny(i) ==
  /\ i = 1
  /\ currentTrack # <<>>
  /\ currentTrack' = <<>>
  /\ last' = [op |-> "removeFromQueue", arg |-> 0, ret |-> Null]
  /\ UNCHANGED <<now, queue, history, feedback>>

removeFromQueue(i) ==
  /\ i \in 1..Len(queue)
  /\ queue' = RemoveAt(queue, i)
  /\ last' = [op |-> "removeFromQueue", arg |-> queue[i].discogsId,
              ret |-> Null]
  /\ UNCHANGED <<now, currentTrack, history, feedback>>

(***************************************************************************)
(* radio.ts: advanceToNextTrack (mutation)                                 *)
(***************************************************************************)
\* a faulty variant of ArchiveCurrent: the row is stamped with the time of
\* the advance instead of the time the track started
ArchiveCurrentNow(ct, h) ==
  IF ct # <<>>
    THEN Append(h, [discogsId |-> ct[1].discogsId,
                    durationSeconds |-> ct[1].durationSeconds,
                    playedAt |-> now,
                    replayCount |-> 0,
                    lastReplayedAt |-> -1,
                    likedBy |-> {}])
    ELSE h

\* "Move current track to history if it exists": the history table after
\* the insert (radio.ts:705-713 and 757-765)
ArchiveCurrent(ct, h) ==
  IF ct # <<>>
    THEN Append(h, [discogsId |-> ct[1].discogsId,
                    durationSeconds |-> ct[1].durationSeconds,
                    playedAt |-> ct[1].startedAt,
                    replayCount |-> 0,
                    lastReplayedAt |-> -1,
                    likedBy |-> {}])
    ELSE h

\* a faulty variant of DeleteCurrent: the old row is not deleted
DeleteCurrentKeeps(ct) == ct

\* ctx.db.delete(currentTrack._id) of the first row, when there is one
DeleteCurrent(ct) == IF ct # <<>> THEN Tail(ct) ELSE ct

\* ctx.db.insert("currentTrack", {...track, startedAt: Date.now()})
InsertCurrent(ct, track, t) ==
  Append(ct, [discogsId |-> track.discogsId,
              durationSeconds |-> track.durationSeconds,
              startedAt |-> t])

\* a faulty variant of PatchReplay: the replay also renews playedAt
PatchReplayRenews(h, i, t) ==
  [h EXCEPT ![i].replayCount = @ + 1, ![i].lastReplayedAt = t,
            ![i].playedAt = t]

\* ctx.db.patch(historyTrack._id, {replayCount + 1, lastReplayedAt})
PatchReplay(h, i, t) ==
  [h EXCEPT ![i].replayCount = @ + 1, ![i].lastReplayedAt = t]

\* the history rows the fallback of advanceToNextTrack can be served from
FallbackPool == getRandomHistoryTrack(history, now, HoursBack, ExcludeRecent)

\* a faulty variant of NotAvailable: the current track is archived and
\* deleted before the mutation gives up
NotAvailableStops ==
  /\ currentTrack' = DeleteCurrent(currentTrack)
  /\ history' = ArchiveCurrent(currentTrack, history)
  /\ UNCHANGED queue
  /\ last' = [op |-> "advanceToNextTrack", arg |-> 0, ret |-> Null]

\* "No tracks available in queue or history": return null (radio.ts:693-698)
NotAvailable ==
  /\ UNCHANGED <<currentTrack, queue, history>>
  /\ last' = [op |-> "advanceToNextTrack", arg |-> 0, ret |-> Null]

advanceToNextTrack ==
  /\ currentTrack # <<>> => Len(history) < MaxHistory
  /\ IF queue = <<>>
       THEN IF FallbackPool = {}
              THEN NotAvailable
              ELSE \E i \in FallbackPool :
                     /\ currentTrack' =
                          InsertCurrent(DeleteCurrent(currentTrack),
                                        history[i], now)
                     /\ history' =
                          PatchReplay(ArchiveCurrent(currentTrack, history),
                                      i, now)
                     /\ UNCHANGED queue
                     /\ last' = [op |-> "advanceToNextTrack",
                                 arg |-> history[i].discogsId,
                                 ret |-> "history"]
       ELSE LET n == QueueFirst(queue)
            IN /\ currentTrack' =
                    InsertCurrent(DeleteCurrent(currentTrack), queue[n], now)
               /\ history' = ArchiveCurrent(currentTrack, history)
               /\ queue' = RemoveAt(queue, n)
               /\ last' = [op |-> "advanceToNextTrack",
                           arg |-> queue[n].discogsId, ret |-> "queue"]
  /\ UNCHANGED <<now, feedback>>

(***************************************************************************)
(* Actions (non-transactional handlers) as processes                       *)
(***************************************************************************)
Step == [op |-> "step", arg |-> 0, ret |-> Null]

Goto(p, l) == pc' = [pc EXCEPT ![p] = l]

\* the handler that process p runs
HandlerOf(p) ==
  IF p = "checker" THEN "checkAndAdvanceTrack"
  ELSE IF p = "health" THEN "maintainQueue"
  ELSE IF p = "clear" THEN "clearQueue"
  ELSE IF p = "cleanup" THEN "cleanupOldHistory"
  ELSE IF p = "force" THEN "forceAdvance" ELSE "skipCurrentTrack"

\* the handler of p returns r
Return(p, r) ==
  /\ Goto(p, "idle")
  /\ loc' = [loc EXCEPT ![p] = LocInit]
  /\ last' = [op |-> HandlerOf(p), arg |-> loc[p].user, ret |-> r]

\* advanceToNextTrackWithContext has returned w to its caller p
\*   checker  trackMonitor.ts:23-24 and 57-100
\*   health   queueManager.ts:228-235
\*   skip     queueManager.ts:286-305
AfterWrap(p, w) ==
  IF p = "checker"
    THEN IF loc[p].branch = "from_empty"
           THEN Return(p, "advanced_from_empty")
           ELSE IF w # Null
             THEN /\ Goto(p, "chk_after")
                  /\ loc' = [loc EXCEPT ![p].wret = w]
                  /\ last' = Step
             ELSE Return(p, "advance_failed")
    ELSE IF p \in {"skip", "force"} THEN Return(p, "success")
    ELSE Return(p, "advance")

\* a new action may start
MayStart == Cardinality({p \in Procs : pc[p] # "idle"}) < MaxActive

\* ctx.runAction(api.queueManager.discoverAndQueueTracks, {count, forceRefresh})
StartDiscovery(p, count, forceRefresh, from, w) ==
  /\ Goto(p, "disc_check")
  /\ loc' = [loc EXCEPT ![p].dcount = count, ![p].force = forceRefresh,
                        ![p].dfrom = from, ![p].wret = w, ![p].dleft = 0]

\* discoverAndQueueTracks has returned to the handler that awaited it; the
\* checker's emergency run is not awaited (trackMonitor.ts:71-78)
DiscReturn(p) ==
  IF loc[p].dfrom = "post" THEN AfterWrap(p, loc[p].wret)
  ELSE IF loc[p].dfrom = "health_emergency"
    THEN Return(p, "emergency_replenishment")
  ELSE IF loc[p].dfrom = "health" THEN Return(p, "discovery")
  ELSE /\ Goto(p, "idle")
       /\ loc' = [loc EXCEPT ![p] = LocInit]
       /\ last' = Step

\* ---- advanceToNextTrackWithContext (radio.ts:114-150) ----
\* getQueue({limit: 1}); an empty queue ends the wrapper with null.  The
\* transition audio generated between this read and the mutation touches
\* only transitionAudioUrl, which the model leaves out.
WrapRead(p) ==
  /\ pc[p] = "wrap_read"
  /\ IF queue = <<>>
       THEN AfterWrap(p, Null)
       ELSE Goto(p, "wrap_mutate") /\ last' = Step /\ UNCHANGED loc
  /\ UNCHANGED <<radioVars, lookupVars>>

\* ctx.runMutation(api.radio.advanceToNextTrack)
WrapMutate(p) ==
  /\ pc[p] = "wrap_mutate"
  /\ advanceToNextTrack
  /\ Goto(p, "post_status")
  /\ loc' = [loc EXCEPT ![p].wret = last'.ret]
  /\ UNCHANGED lookupVars

\* postAdvanceQueueUpdate (radio.ts:813-905): getQueueStatus, then discovery
\* when the queue is below target
PostStatus(p) ==
  /\ pc[p] = "post_status"
  /\ IF Len(queue) < TARGET_QUEUE_SIZE
       THEN /\ StartDiscovery(p,
                 Min(TARGET_QUEUE_SIZE - Len(queue) + 2,
                     MAX_QUEUE_SIZE - Len(queue)),
                 FALSE, "post", loc[p].wret)
            /\ last' = Step
       ELSE AfterWrap(p, loc[p].wret)
  /\ UNCHANGED <<radioVars, lookupVars>>

\* ---- discoverAndQueueTracks (queueManager.ts:15-157) ----
\* getQueueStatus and the queue-full refusal, then smartSearch, which returns
\* at most the requested count of candidates
DiscCheck(p) ==
  /\ pc[p] = "disc_check"
  /\ LET requestedCount ==
           IF loc[p].dcount # 0 THEN loc[p].dcount ELSE DISCOVERY_BATCH_SIZE
     IN IF Len(queue) >= MAX_QUEUE_SIZE /\ ~loc[p].force
          THEN DiscReturn(p)
          ELSE \E n \in 0..Min(requestedCount, MaxBatch) :
                 IF n = 0
                   THEN DiscReturn(p)
                   ELSE /\ Goto(p, "disc_track")
                        /\ loc' = [loc EXCEPT ![p].dleft = n,
                                              ![p].dcount = 0]
                        /\ last' = Step
  /\ UNCHANGED <<radioVars, lookupVars>>

\* the loop moves to the next candidate, or the run ends
NextCandidate(p) ==
  IF loc[p].dleft > 1
    THEN /\ Goto(p, "disc_track")
         /\ loc' = [loc EXCEPT ![p].dleft = @ - 1]
         /\ last' = Step
    ELSE DiscReturn(p)

\* one candidate: findBestMatch finds nothing or throws (skipped / error),
\* or it finds a video and addToQueue runs
DiscTrackNoMatch(p) ==
  /\ pc[p] = "disc_track"
  /\ NextCandidate(p)
  /\ UNCHANGED <<radioVars, lookupVars>>

\* a faulty variant of DiscTrackError: the error ends the run
DiscTrackErrorAborts(p) ==
  /\ pc[p] = "disc_track"
  /\ DiscReturn(p)
  /\ UNCHANGED <<radioVars, lookupVars>>

\* one candidate: findBestMatch or addToQueue throws; the catch of the loop
\* counts the error (errorCount++) and the loop goes on
DiscTrackError(p) ==
  /\ pc[p] = "disc_track"
  /\ IF loc[p].dleft > 1
       THEN /\ Goto(p, "disc_track")
            /\ loc' = [loc EXCEPT ![p].dleft = @ - 1, ![p].derrors = @ + 1]
            /\ last' = Step
       ELSE DiscReturn(p)
  /\ UNCHANGED <<radioVars, lookupVars>>

\* the candidate is one of the catalog ids in S
DiscTrackAddFrom(p, S) ==
  /\ pc[p] = "disc_track"
  /\ \E d \in S : addToQueue(d)
  /\ Goto(p, "disc_status")
  /\ UNCHANGED <<loc, lookupVars>>

DiscTrackAdd(p) == DiscTrackAddFrom(p, Ids)

\* getQueueStatus after the enqueue: stop when the queue is full
DiscStatus(p) ==
  /\ pc[p] = "disc_status"
  /\ IF Len(queue) >= MAX_QUEUE_SIZE THEN DiscReturn(p) ELSE NextCandidate(p)
  /\ UNCHANGED <<radioVars, lookupVars>>

\* the run behind a promise nobody awaits may be cut off at any point
DiscAbandon(p) ==
  /\ pc[p] \in {"disc_check", "disc_track", "disc_status"}
  /\ loc[p].dfrom = "emergency"
  /\ Goto(p, "idle")
  /\ loc' = [loc EXCEPT ![p] = LocInit]
  /\ last' = Step
  /\ UNCHANGED <<radioVars, lookupVars>>

\* ---- getCurrentTrackStatus (trackMonitor.ts:115-144) ----
\* the timing every client derives from the row of currentTrack
getCurrentTrackStatus(track, t) ==
  LET elapsed == t - track.startedAt
      duration ==
        (IF track.durationSeconds # 0 THEN track.durationSeconds
                                      ELSE DefaultDurationSeconds) * Second
      remaining == duration - elapsed
  IN  [startedAt |-> track.startedAt, durationMs |-> duration,
       elapsedMs |-> elapsed, remainingMs |-> remaining,
       hasExpired |-> remaining <= 0]

\* a faulty variant of hasExpired: the default duration is forgotten
hasExpiredNoDefault(track, t) ==
  track.startedAt + track.durationSeconds * Second - t <= 0

\* ---- checkAndAdvanceTrack (trackMonitor.ts:9-113) ----
\* timeRemaining <= 0 for the row read by getCurrentTrack
hasExpired(track, t) ==
  LET trackDuration ==
        (IF track.durationSeconds # 0 THEN track.durationSeconds
                                      ELSE DefaultDurationSeconds) * Second
      trackEndTime == track.startedAt + trackDuration
  IN  trackEndTime - t <= 0

ChkStart ==
  /\ pc["checker"] = "idle"
  /\ MayStart
  /\ IF currentTrack = <<>>
       THEN Goto("checker", "chk_status") /\ last' = Step /\ UNCHANGED loc
       ELSE IF hasExpired(currentTrack[1], now)
         THEN /\ Goto("checker", "wrap_read")
              /\ loc' = [loc EXCEPT !["checker"].branch = "expired",
                                    !["checker"].track =
                                       currentTrack[1].discogsId]
              /\ last' = Step
         ELSE Return("checker", "none")
  /\ UNCHANGED <<radioVars, lookupVars>>

\* a faulty variant of ChkStatus: a stalled station is left to the health
\* controller
ChkStatusGivesUp ==
  /\ pc["checker"] = "chk_status"
  /\ Return("checker", "none")
  /\ UNCHANGED <<radioVars, lookupVars>>

ChkStatus ==
  /\ pc["checker"] = "chk_status"
  /\ IF Len(queue) > 0
       THEN /\ Goto("checker", "wrap_read")
            /\ loc' = [loc EXCEPT !["checker"].branch = "from_empty"]
            /\ last' = Step
       ELSE Return("checker", "none")
  /\ UNCHANGED <<radioVars, lookupVars>>

\* after a successful advance: getQueueStatus, usingFallback = queue empty
ChkAfter ==
  /\ pc["checker"] = "chk_after"
  /\ IF Len(queue) = 0
       THEN /\ StartDiscovery("checker", CheckerEmergencyBatch, FALSE,
                              "emergency", loc["checker"].wret)
            /\ last' = [op |-> "checkAndAdvanceTrack", arg |-> 0,
                        ret |-> "advanced"]
       ELSE Return("checker", "advanced")
  /\ UNCHANGED <<radioVars, lookupVars>>

\* a faulty variant of HcStart: a full queue is never advanced from
HcStartBelowMax ==
  /\ pc["health"] = "idle"
  /\ MayStart
  /\ IF Len(queue) = 0
       THEN /\ StartDiscovery("health", EmergencyBatch, FALSE,
                              "health_emergency", Null)
            /\ last' = Step
       ELSE IF Len(queue) < TARGET_QUEUE_SIZE
         THEN /\ StartDiscovery("health",
                   TARGET_QUEUE_SIZE - Len(queue) + 2, FALSE, "health", Null)
              /\ last' = Step
         ELSE IF currentTrack = <<>> /\ Len(queue) < MAX_QUEUE_SIZE
           THEN Goto("health", "wrap_read") /\ last' = Step /\ UNCHANGED loc
           ELSE Return("health", "none")
  /\ UNCHANGED <<radioVars, lookupVars>>

\* ---- maintainQueue (queueManager.ts:160-251) ----
HcStart ==
  /\ pc["health"] = "idle"
  /\ MayStart
  /\ IF Len(queue) = 0
       THEN /\ StartDiscovery("health", EmergencyBatch, FALSE,
                              "health_emergency", Null)
            /\ last' = Step
       ELSE IF Len(queue) < TARGET_QUEUE_SIZE
         THEN /\ StartDiscovery("health",
                   TARGET_QUEUE_SIZE - Len(queue) + 2, FALSE, "health", Null)
              /\ last' = Step
         ELSE IF currentTrack = <<>> /\ Len(queue) > 0
           THEN Goto("health", "wrap_read") /\ last' = Step /\ UNCHANGED loc
           ELSE Return("health", "none")
  /\ UNCHANGED <<radioVars, lookupVars>>

\* ---- users.ts:8-16 getUserById: ctx.db.get(userId) ----
\* found is FALSE for the null of an id without a row
getUserById(u) ==
  IF u \in DOMAIN users THEN [found |-> TRUE, role |-> users[u].role]
                        ELSE [found |-> FALSE, role |-> Null]

\* a faulty variant of isController: an id without row passes
isControllerOrMissing(user) == ~user.found \/ user.role = "controller"

\* the gate of the privileged actions: !(!user || user.role !== "controller")
isController(user) == user.found /\ user.role = "controller"

\* ---- skipCurrentTrack (queueManager.ts:254-317) ----
\* getUserById and the role gate
SkipStart(u) ==
  /\ pc["skip"] = "idle"
  /\ MayStart
  /\ IF ~isController(getUserById(u))
       THEN /\ last' = [op |-> "skipCurrentTrack", arg |-> u,
                        ret |-> "Only controllers can skip tracks"]
            /\ UNCHANGED <<pc, loc>>
       ELSE /\ Goto("skip", "skip_current")
            /\ loc' = [loc EXCEPT !["skip"].user = u]
            /\ last' = Step
  /\ UNCHANGED <<radioVars, lookupVars>>

\* getCurrentTrack
SkipCurrent ==
  /\ pc["skip"] = "skip_current"
  /\ IF currentTrack = <<>>
       THEN Return("skip", "no_current_track")
       ELSE /\ Goto("skip", "skip_feedback")
            /\ loc' = [loc EXCEPT !["skip"].track = currentTrack[1].discogsId]
            /\ last' = Step
  /\ UNCHANGED <<radioVars, lookupVars>>

\* users.ts:400-466 recordFeedback: one row per (user, track), updated in place
recordFeedback(fb, u, d, type) ==
  {f \in fb : ~(f.userId = u /\ f.discogsId = d)}
    \cup {[userId |-> u, discogsId |-> d, type |-> type]}

SkipFeedback ==
  /\ pc["skip"] = "skip_feedback"
  /\ feedback' = recordFeedback(feedback, loc["skip"].user,
                                loc["skip"].track, "skip")
  /\ Goto("skip", "wrap_read")
  /\ last' = Step
  /\ UNCHANGED <<now, currentTrack, queue, history, loc, lookupVars>>

ProcStep ==
  \/ \E p \in Procs : WrapRead(p)
  \/ \E p \in Procs : WrapMutate(p)
  \/ \E p \in Procs : PostStatus(p)
  \/ \E p \in Procs : DiscCheck(p)
  \/ \E p \in Procs : DiscTrackNoMatch(p)
  \/ \E p \in Procs : DiscTrackAdd(p)
  \/ \E p \in Procs : DiscStatus(p)
  \/ \E p \in Procs : DiscAbandon(p)
  \/ ChkStart
  \/ ChkStatus
  \/ ChkAfter
  \/ HcStart
  \/ \E u \in Users : SkipStart(u)
  \/ SkipCurrent
  \/ SkipFeedback

\* the mutations called on their own (deployment scripts, test utilities,
\* discovery runs seen from outside)
Next ==
  \/ TickSmall
  \/ TickDay
  \/ \E d \in Ids : addToQueue(d) /\ UNCHANGED <<procVars, lookupVars>>
  \/ \E d \in Ids, u \in Users \cup {Null} :
       addTrackManually(d, u) /\ UNCHANGED <<procVars, lookupVars>>
  \/ advanceToNextTrack /\ UNCHANGED <<procVars, lookupVars>>
  \/ \E i \in 1..MAX_QUEUE_SIZE : removeFromQueue(i) /\ UNCHANGED <<procVars, lookupVars>>

Spec == Init /\ [][Next]_vars

\* the scheduled actions and skip requests running concurrently, while a
\* controller removes rows from the queue
NextCallers ==
  \/ TickSmall
  \/ ProcStep
  \/ \E i \in 1..MAX_QUEUE_SIZE : removeFromQueue(i) /\ UNCHANGED <<procVars, lookupVars>>

SpecCallers == Init /\ [][NextCallers]_vars

\* getRandomHistoryTrack called as the query it is, with the arguments of
\* advanceToNextTrack: arg is the row returned, 0 for null
GetRandomHistoryTrack ==
  /\ LET pool == getRandomHistoryTrack(history, now, HoursBack, ExcludeRecent)
     IN IF pool = {}
          THEN last' = [op |-> "getRandomHistoryTrack", arg |-> 0,
                        ret |-> Null]
          ELSE \E i \in pool :
                 last' = [op |-> "getRandomHistoryTrack", arg |-> i,
                          ret |-> "row"]
  /\ UNCHANGED <<radioVars, procVars, lookupVars>>

NextFallback ==
  \/ Next
  \/ GetRandomHistoryTrack

SpecFallback == Init /\ [][NextFallback]_vars

(***************************************************************************)
(* queueManager.ts: clearQueue (action)                                    *)
(***************************************************************************)
\* getQueue({ limit: 100 }) (queueManager.ts:340): a fifth of the 500 rows
\* the queue may hold, scaled with MAX_QUEUE_SIZE
ClearQueueLimit == 2

\* getQueue: .withIndex("by_createdAt").order("asc").take(limit); the rows
\* of the queue are in this order (createdAt is the time of the insert)
getQueue(q, limit) == SubSeq(q, 1, Min(Len(q), limit))

\* getUserById and the role gate
ClearStart(u, keepCount) ==
  /\ pc["clear"] = "idle"
  /\ IF ~isController(getUserById(u))
       THEN /\ last' = [op |-> "clearQueue", arg |-> u,
                        ret |-> "Only controllers can clear queue"]
            /\ UNCHANGED <<pc, loc>>
       ELSE /\ Goto("clear", "clear_read")
            /\ loc' = [loc EXCEPT !["clear"].user = u,
                                  !["clear"].dcount = keepCount]
            /\ last' = Step
  /\ UNCHANGED <<radioVars, lookupVars>>

\* the result of clearQueue: originalSize is queue.length and removedCount
\* is tracksToRemove.length, the length of queue.slice(keepCount)
ClearResult(originalSize, keepCount) ==
  [success |-> TRUE, originalSize |-> originalSize, newSize |-> keepCount,
   removedCount |-> IF originalSize > keepCount THEN originalSize - keepCount
                                               ELSE 0]

\* getQueue and queue.slice(keepCount): the rows to remove
ClearRead ==
  /\ pc["clear"] = "clear_read"
  /\ LET rows == getQueue(queue, ClearQueueLimit)
         tracksToRemove == SubSeq(rows, loc["clear"].dcount + 1, Len(rows))
     IN IF tracksToRemove = <<>>
          THEN Return("clear", ClearResult(Len(rows), loc["clear"].dcount))
          ELSE /\ Goto("clear", "clear_remove")
               /\ loc' = [loc EXCEPT !["clear"].todo = tracksToRemove,
                                     !["clear"].originalSize = Len(rows)]
               /\ last' = Step
  /\ UNCHANGED <<radioVars, lookupVars>>

\* removeFromQueue for the next row read; ctx.db.delete throws when the row
\* is gone, which ends the action.  A row is known by its content here.
ClearRemove ==
  /\ pc["clear"] = "clear_remove"
  /\ LET track == Head(loc["clear"].todo)
     IN IF \E i \in 1..Len(queue) : queue[i] = track
          THEN /\ queue' = RemoveAt(queue,
                              CHOOSE i \in 1..Len(queue) : queue[i] = track)
               /\ IF Len(loc["clear"].todo) = 1
                    THEN Return("clear",
                                ClearResult(loc["clear"].originalSize,
                                            loc["clear"].dcount))
                    ELSE /\ loc' = [loc EXCEPT !["clear"].todo = Tail(@)]
                         /\ last' = Step
                         /\ UNCHANGED pc
          ELSE /\ Return("clear", "Delete on nonexistent document")
               /\ UNCHANGED queue
  /\ UNCHANGED <<now, currentTrack, history, feedback, lookupVars>>

\* ---- forceAdvance (trackMonitor.ts:147-178) ----
\* a public action without arguments about the caller; u is the user whose
\* client calls it
ForceStart(u) ==
  /\ pc["force"] = "idle"
  /\ Goto("force", "wrap_read")
  /\ loc' = [loc EXCEPT !["force"].user = u]
  /\ last' = Step
  /\ UNCHANGED <<radioVars, lookupVars>>

\* what the clients of all users can call about advancement, while discovery
\* fills the queue
NextClients ==
  \/ \E u \in UserIds : ForceStart(u)
  \/ WrapRead("force")
  \/ WrapMutate("force")
  \/ PostStatus("force")
  \/ DiscCheck("force")
  \/ DiscTrackNoMatch("force")
  \/ DiscTrackAdd("force")
  \/ DiscStatus("force")
  \/ \E d \in Ids : addToQueue(d) /\ UNCHANGED <<procVars, lookupVars>>
  \/ TickSmall

SpecClients == Init /\ [][NextClients]_vars

\* skip and clear requests of every user, while tracks are queued and played
NextControl ==
  \/ \E u \in UserIds : SkipStart(u)
  \/ SkipCurrent
  \/ SkipFeedback
  \/ WrapRead("skip")
  \/ WrapMutate("skip")
  \/ PostStatus("skip")
  \/ DiscCheck("skip")
  \/ DiscTrackNoMatch("skip")
  \/ DiscTrackAdd("skip")
  \/ DiscStatus("skip")
  \/ \E u \in UserIds, keepCount \in 0..1 : ClearStart(u, keepCount)
  \/ ClearRead
  \/ ClearRemove
  \/ \E d \in Ids : addToQueue(d) /\ UNCHANGED <<procVars, lookupVars>>
  \/ advanceToNextTrack /\ UNCHANGED <<procVars, lookupVars>>

SpecControl == Init /\ [][NextControl]_vars

(***************************************************************************)
(* The scheduled discovery runs (crons.ts:46-73) against a queue that      *)
(* fills up, while tracks are played                                       *)
(***************************************************************************)
\* { count: 200, forceRefresh: true } (crons.ts:51)
MorningBatch == 200
\* { count: 150 } (crons.ts:58)
NoonBatch == 150
\* the catalog offers one track more than the queue may hold
CatalogIds == 1..(MAX_QUEUE_SIZE + 1)

CronStart(p) ==
  /\ pc[p] = "idle"
  /\ IF p = "morning"
       THEN StartDiscovery(p, MorningBatch, TRUE, "cron", Null)
       ELSE StartDiscovery(p, NoonBatch, FALSE, "cron", Null)
  /\ last' = Step
  /\ UNCHANGED <<radioVars, lookupVars>>

NextDiscovery ==
  \/ \E p \in Crons : CronStart(p)
  \/ \E p \in Crons : DiscCheck(p)
  \/ \E p \in Crons : DiscTrackNoMatch(p)
  \/ \E p \in Crons : DiscTrackError(p)
  \/ \E p \in Crons : DiscTrackAddFrom(p, CatalogIds)
  \/ \E p \in Crons : DiscStatus(p)
  \/ advanceToNextTrack /\ UNCHANGED <<procVars, lookupVars>>

SpecDiscovery == Init /\ [][NextDiscovery]_vars

(***************************************************************************)
(* The health controller (crons.ts "queue-maintenance") on its own, while  *)
(* discovery runs of other callers fill the queue up to its cap            *)
(***************************************************************************)
NextHealth ==
  \/ HcStart
  \/ WrapRead("health")
  \/ WrapMutate("health")
  \/ PostStatus("health")
  \/ DiscCheck("health")
  \/ DiscTrackNoMatch("health")
  \/ DiscTrackAddFrom("health", CatalogIds)
  \/ DiscStatus("health")
  \/ \E d \in CatalogIds : addToQueue(d) /\ UNCHANGED <<procVars, lookupVars>>
  \/ TickSmall

SpecHealth == Init /\ [][NextHealth]_vars

(***************************************************************************)
(* The writers of the history table besides advanceToNextTrack:            *)
(* users.ts toggleLike (mutation) and the maintenance functions            *)
(* cleanupOldHistory (action) and deleteHistoryEntry (mutation)            *)
(***************************************************************************)
\* "args.daysToKeep || 30" (youtubeApiKeyPool.ts:426)
DefaultDaysToKeep == 30
\* "args.maxHistoryToDelete || 5000" (youtubeApiKeyPool.ts:427)
DefaultMaxHistoryToDelete == 5000

\* getTrackHistory: .query("history").order("desc").take(limit), newest first
getTrackHistory(h, limit) ==
  [k \in 1..Min(Len(h), limit) |-> h[Len(h) + 1 - k]]

\* oldHistory.filter(entry => entry.playedAt < cutoffTime)
RECURSIVE olderThan(_, _)
olderThan(rows, cutoffTime) ==
  IF rows = <<>> THEN <<>>
  ELSE IF Head(rows).playedAt < cutoffTime
    THEN <<Head(rows)>> \o olderThan(Tail(rows), cutoffTime)
    ELSE olderThan(Tail(rows), cutoffTime)

\* toggleLike: the feedback row of (user, track) is deleted when it is a
\* like, turned into a like when it is a skip, inserted otherwise
toggleFeedback(fb, u, d) ==
  IF \E f \in fb : f.userId = u /\ f.discogsId = d /\ f.type = "like"
    THEN {f \in fb : ~(f.userId = u /\ f.discogsId = d)}
    ELSE {f \in fb : ~(f.userId = u /\ f.discogsId = d)}
           \cup {[userId |-> u, discogsId |-> d, type |-> "like"]}

\* a faulty variant of toggleLikedBy: the rows of the track are re-stamped
toggleLikedByStamps(h, u, d, isNowLiked, t) ==
  [i \in 1..Len(h) |->
     IF h[i].discogsId = d THEN [h[i] EXCEPT !.playedAt = t] ELSE h[i]]

\* toggleLike: "Update history table's likedBy array" (users.ts:349-368)
toggleLikedBy(h, u, d, isNowLiked, t) ==
  [i \in 1..Len(h) |->
     IF h[i].discogsId = d
       THEN [h[i] EXCEPT !.likedBy = IF isNowLiked THEN @ \cup {u}
                                                   ELSE @ \ {u}]
       ELSE h[i]]

toggleLike(u, d) ==
  /\ IF ~getUserById(u).found
       THEN /\ UNCHANGED <<feedback, history>>
            /\ last' = [op |-> "toggleLike", arg |-> d,
                        ret |-> "User not found"]
       ELSE LET wasLiked == \E f \in feedback :
                              /\ f.userId = u /\ f.discogsId = d
                              /\ f.type = "like"
            IN /\ feedback' = toggleFeedback(feedback, u, d)
               /\ history' = toggleLikedBy(history, u, d, ~wasLiked, now)
               /\ last' = [op |-> "toggleLike", arg |-> d, ret |-> ~wasLiked]
  /\ UNCHANGED <<now, currentTrack, queue>>

\* deleteHistoryEntry (mutation): ctx.db.delete(entryId), for row i
deleteHistoryEntry(i) ==
  /\ i \in 1..Len(history)
  /\ history' = RemoveAt(history, i)
  /\ last' = [op |-> "deleteHistoryEntry", arg |-> history[i].discogsId,
              ret |-> "deleted"]
  /\ UNCHANGED <<now, currentTrack, queue, feedback>>

\* cleanupOldHistory: the cutoff, getTrackHistory and the filter
CleanStart(daysToKeepArg) ==
  /\ pc["cleanup"] = "idle"
  /\ LET daysToKeep == IF daysToKeepArg # 0 THEN daysToKeepArg
                                            ELSE DefaultDaysToKeep
         cutoffTime == now - (daysToKeep * 24 * 60 * 60 * Second)
         oldHistory == getTrackHistory(history, DefaultMaxHistoryToDelete)
         historyToDelete == olderThan(oldHistory, cutoffTime)
     IN IF historyToDelete = <<>>
          THEN Return("cleanup", 0)
          ELSE /\ Goto("cleanup", "clean_delete")
               /\ loc' = [loc EXCEPT !["cleanup"].todo = historyToDelete,
                                     !["cleanup"].dcount = daysToKeep]
               /\ last' = Step
  /\ UNCHANGED <<radioVars, lookupVars>>

\* the loop moves to the next entry, or the action returns; the model
\* follows one run that deletes
CleanNext ==
  IF Len(loc["cleanup"].todo) = 1
    THEN /\ Goto("cleanup", "done")
         /\ loc' = [loc EXCEPT !["cleanup"] = LocInit]
    ELSE /\ loc' = [loc EXCEPT !["cleanup"].todo = Tail(@)]
         /\ UNCHANGED pc

\* deleteHistoryEntry for the next entry read; the error of a row that is
\* gone is caught and the loop goes on.  A row is known by its content here.
CleanDelete ==
  /\ pc["cleanup"] = "clean_delete"
  /\ LET entry == Head(loc["cleanup"].todo)
     IN IF \E i \in 1..Len(history) : history[i] = entry
          THEN \E i \in 1..Len(history) :
                 /\ history[i] = entry
                 /\ deleteHistoryEntry(i)
          ELSE /\ last' = [op |-> "deleteHistoryEntry",
                           arg |-> entry.discogsId,
                           ret |-> "Delete on nonexistent document"]
               /\ UNCHANGED radioVars
  /\ CleanNext
  /\ UNCHANGED lookupVars

\* tracks are played and liked over more than a day, and the history is
\* cleaned up once
NextHistory ==
  \/ TickSmall
  \/ TickDay
  \/ \E d \in Ids : addToQueue(d) /\ UNCHANGED <<procVars, lookupVars>>
  \/ advanceToNextTrack /\ UNCHANGED <<procVars, lookupVars>>
  \/ \E u \in {"listener", "deleted"} :
       toggleLike(u, 1) /\ UNCHANGED <<procVars, lookupVars>>
  \/ \E daysToKeepArg \in 0..1 : CleanStart(daysToKeepArg)
  \/ CleanDelete

SpecHistory == Init /\ [][NextHistory]_vars

(***************************************************************************)
(* RadioPlayer: the handoff from the spoken intro ("transition audio") to  *)
(* the main track.  Idle: neither flag set; IntroPlaying:                  *)
(* isPlayingTransition; MainPlaying: transitionEnded.  The events of the   *)
(* hidden audio element are the environment's; each runs its handler.      *)
(***************************************************************************)
\* the client sees at most MaxTracks tracks become current
MaxTracks == 2

playerFrame ==
  <<now, currentTrack, queue, history, feedback, pc, loc, youtubeApiUsage,
    youtubeCache, lpc, lloc, started, users>>

Event(name) == [op |-> name, arg |-> 0, ret |-> Null]

\* handleTransitionEnd: the flags it sets
handleTransitionEnd(pl) ==
  [pl EXCEPT !.isPlayingTransition = FALSE, !.transitionEnded = TRUE]

\* handleTransitionError: the flags it sets
handleTransitionError(pl) ==
  [pl EXCEPT !.isPlayingTransition = FALSE, !.transitionEnded = TRUE]

\* the effect on currentTrack?._id: a new track, with or without intro
TrackChange(url) ==
  /\ player.track < MaxTracks
  /\ player' = [player EXCEPT !.track = @ + 1,
                              !.transitionAudioUrl = url,
                              !.isPlayingTransition = FALSE,
                              !.transitionEnded = FALSE]
  /\ last' = Event("trackChange")
  /\ UNCHANGED playerFrame

\* the effect that starts the intro: src is set and play() is called
StartIntro ==
  /\ player.track > 0
  /\ player.transitionAudioUrl
  /\ ~player.isPlayingTransition
  /\ ~player.transitionEnded
  /\ player' = [player EXCEPT !.isPlayingTransition = TRUE,
                              !.audio = "loading",
                              !.paused = FALSE]
  /\ last' = Event("startIntro")
  /\ UNCHANGED playerFrame

\* play() is rejected: .catch(...) calls handleTransitionEnd
PlayRejected ==
  /\ player.audio = "loading"
  /\ ~player.paused
  /\ player' = handleTransitionEnd([player EXCEPT !.audio = "rejected",
                                                  !.paused = TRUE])
  /\ last' = Event("playRejected")
  /\ UNCHANGED playerFrame

\* the intro starts to sound
AudioPlaying ==
  /\ player.audio = "loading"
  /\ ~player.paused
  /\ player' = [player EXCEPT !.audio = "playing"]
  /\ last' = Event("playing")
  /\ UNCHANGED playerFrame

\* onEnded={handleTransitionEnd}
AudioEnded ==
  /\ player.audio = "playing"
  /\ ~player.paused
  /\ player' = handleTransitionEnd([player EXCEPT !.audio = "ended",
                                                  !.paused = TRUE])
  /\ last' = Event("ended")
  /\ UNCHANGED playerFrame

\* onError={handleTransitionError}
AudioError ==
  /\ player.audio \in {"loading", "playing"}
  /\ player' = handleTransitionError([player EXCEPT !.audio = "error"])
  /\ last' = Event("error")
  /\ UNCHANGED playerFrame

\* onAbort: handleTransitionError()
AudioAbort ==
  /\ player.audio = "loading"
  /\ player' = handleTransitionError([player EXCEPT !.audio = "aborted"])
  /\ last' = Event("abort")
  /\ UNCHANGED playerFrame

\* the element is paused from outside the component (media key, browser):
\* onPause only logs
AudioPaused ==
  /\ player.audio \in {"loading", "playing"}
  /\ ~player.paused
  /\ player' = [player EXCEPT !.paused = TRUE]
  /\ last' = Event("pause")
  /\ UNCHANGED playerFrame

\* onStalled: setTimeout(..., 3000); the callback closes over the
\* isPlayingTransition of the render in which the event arrived
AudioStalled ==
  /\ player.audio \in {"loading", "playing"}
  /\ player.isPlayingTransition \notin player.timers
  /\ player' = [player EXCEPT !.timers = @ \cup {player.isPlayingTransition}]
  /\ last' = Event("stalled")
  /\ UNCHANGED playerFrame

\* the timer of onStalled fires:
\* if (isPlayingTransition && transitionAudioRef.current?.paused)
\*   handleTransitionError()
StallTimerFire(c) ==
  /\ c \in player.timers
  /\ LET pl == [player EXCEPT !.timers = @ \ {c}]
     IN player' = IF c /\ player.paused THEN handleTransitionError(pl) ELSE pl
  /\ last' = Event("stallTimer")
  /\ UNCHANGED playerFrame

NextIntro ==
  \/ \E url \in BOOLEAN : TrackChange(url)
  \/ StartIntro
  \/ PlayRejected
  \/ AudioPlaying
  \/ AudioEnded
  \/ AudioError
  \/ AudioAbort
  \/ AudioPaused
  \/ AudioStalled
  \/ \E c \in BOOLEAN : StallTimerFire(c)

\* React runs a pending effect and the browser fires a pending timer; what
\* the audio element does is up to the network and the browser
SpecIntro ==
  /\ Init
  /\ [][NextIntro]_vars
  /\ WF_vars(StartIntro)
  /\ WF_vars(\E c \in BOOLEAN : StallTimerFire(c))

(***************************************************************************)
(* Properties of the broadcast engine                                      *)
(***************************************************************************)
\* C1, as stated: after every advanceToNextTrack call settles, whoever made
\* it, exactly one currentTrack row exists.
C1_ExactlyOneAfterAdvance ==
  last.op = "advanceToNextTrack" => Len(currentTrack) = 1

\* C1, amended: for every interleaving of the callers there is never more
\* than one currentTrack row, and there is exactly one after every
\* advanceToNextTrack call that returns a track; a call that returns null
\* leaves the table as it found it, empty included.
C1_AtMostOneCurrentTrack ==
  /\ Len(currentTrack) <= 1
  /\ (last.op = "advanceToNextTrack" /\ last.ret # Null)
       => Len(currentTrack) = 1

\* an advance has just replaced a current track while another caller's
\* advance is still to run
C1_Witness ==
  /\ last.op = "advanceToNextTrack"
  /\ last.ret # Null
  /\ Len(currentTrack) = 1
  /\ history # <<>>
  /\ \E p \in Procs : pc[p] = "wrap_mutate"

\* some history row is older than the 24 h cutoff, or there are more rows
\* than the excludeRecent newest ones
C2_HasFallback(h, t) ==
  \/ \E i \in 1..Len(h) : h[i].playedAt < t - 24 * 60 * 60 * Second
  \/ Len(h) > ExcludeRecent

C3_CheckerUsesFallback ==
  (last.op = "checkAndAdvanceTrack" /\ last.ret = "advance_failed")
    => ~(/\ currentTrack # <<>>
         /\ hasExpired(currentTrack[1], now)
         /\ queue = <<>>
         /\ Len(history) >= 1
         /\ FallbackPool # {})

\* another track than the current one is in the queue or in the history
C4_OtherTrackAvailable ==
  \/ \E i \in 1..Len(queue) : queue[i].discogsId # currentTrack[1].discogsId
  \/ \E i \in 1..Len(history) :
       history[i].discogsId # currentTrack[1].discogsId

\* C4, as stated: after every successful advanceToNextTrack, from the queue
\* or from the history, the new current track's discogsId differs from that
\* of the track it replaced, unless no other track is available anywhere.
C4_NoImmediateRepeat ==
  [][(/\ last'.op = "advanceToNextTrack"
      /\ last'.ret # Null
      /\ currentTrack # <<>>
      /\ C4_OtherTrackAvailable)
       => currentTrack'[1].discogsId # currentTrack[1].discogsId]_vars

\* the rows of the history that isTrackInRecentHistory looks at
C5_RecentIds ==
  {history[i].discogsId :
     i \in {j \in 1..Len(history) : j > Len(history) - LastNTracks}}

\* C5: addToQueue inserts nothing for a candidate whose discogsId is in the
\* lastNTracks newest history rows or already in the queue, and appends
\* exactly one row, carrying that discogsId, for every other candidate.
C5_AddToQueueDedup ==
  [][last'.op = "addToQueue" =>
       LET d == last'.arg
       IN IF \/ \E i \in 1..Len(queue) : queue[i].discogsId = d
             \/ d \in C5_RecentIds
            THEN queue' = queue /\ last'.ret # "inserted"
            ELSE /\ Len(queue') = Len(queue) + 1
                 /\ SubSeq(queue', 1, Len(queue)) = queue
                 /\ queue'[Len(queue')].discogsId = d
                 /\ last'.ret = "inserted"]_vars

\* a candidate was inserted although the history holds it, outside the
\* window of the newest rows, while the window holds another track
C5_Witness ==
  /\ last.op = "addToQueue"
  /\ last.ret = "inserted"
  /\ Len(history) > LastNTracks
  /\ \E i \in 1..Len(history) : history[i].discogsId = last.arg

(***************************************************************************)
(* youtubeCache: strings and normalization                                 *)
(***************************************************************************)
\* A string is a sequence of one-character strings.
\* String.prototype.toLowerCase on the letters the model uses
LowerChar(c) == IF c = "A" THEN "a" ELSE IF c = "T" THEN "t" ELSE c

toLowerCase(str) == [i \in 1..Len(str) |-> LowerChar(str[i])]

\* String.prototype.trim: leading and trailing white space removed
trim(str) ==
  LET inked == {i \in 1..Len(str) : str[i] # " "}
  IN IF inked = {} THEN <<>>
     ELSE SubSeq(str,
                 CHOOSE i \in inked : \A j \in inked : i <= j,
                 CHOOSE i \in inked : \A j \in inked : i >= j)

\* a faulty variant of normalized: the white space is kept
normalizedCaseOnly(str) == toLowerCase(str)

\* args.artist.toLowerCase().trim()
normalized(str) == trim(toLowerCase(str))

\* the (artist, title) arguments lookups and cache calls are made with:
\* three spellings of one track, and another track
LookupArgs ==
  << [artist |-> <<"A">>, title |-> <<"t">>],
     [artist |-> <<" ", "a">>, title |-> <<"T", " ">>],
     [artist |-> <<"a", " ">>, title |-> <<"t">>],
     [artist |-> <<"b">>, title |-> <<"t">>] >>

\* what the provider can return for a track: the video and its duration
Videos == {[youtubeId |-> "v1", durationSeconds |-> 90],
           [youtubeId |-> "v2", durationSeconds |-> 0]}

\* the video the provider's search settles on for the track of the lookups
FoundVideo == [youtubeId |-> "v1", durationSeconds |-> 90]

\* the result of a cache lookup that found nothing
CacheMiss == [videoId |-> Null, durationSeconds |-> 0, cacheId |-> 0]

\* .withIndex("by_artist_title", artist, title).first(): the index of the
\* first row with these (already normalized) columns, 0 when there is none
cacheIndex(tbl, artist, title) ==
  LET S == {i \in 1..Len(tbl) : tbl[i].artist = artist /\ tbl[i].title = title}
  IN IF S = {} THEN 0 ELSE CHOOSE i \in S : \A j \in S : i <= j

\* getCachedMatch (query): the cached video, or null
getCachedMatch(tbl, artist, title) ==
  LET i == cacheIndex(tbl, normalized(artist), normalized(title))
  IN IF i # 0
       THEN [videoId |-> tbl[i].youtubeId,
             durationSeconds |-> tbl[i].durationSeconds,
             cacheId |-> i]
       ELSE CacheMiss

\* updateCacheUsage (mutation): the table after the call
updateCacheUsage(tbl, t, cacheId) ==
  IF cacheId \in 1..Len(tbl)
    THEN [tbl EXCEPT ![cacheId].lastUsedAt = t, ![cacheId].useCount = @ + 1]
    ELSE tbl

\* a faulty variant of saveToCache: a row is inserted without looking for an
\* existing one
saveToCacheInsertOnly(tbl, t, artist, title, video) ==
  Append(tbl, [artist |-> normalized(artist), title |-> normalized(title),
               youtubeId |-> video.youtubeId,
               durationSeconds |-> video.durationSeconds,
               cachedAt |-> t, lastUsedAt |-> t, useCount |-> 1])

\* saveToCache (mutation): the table after the call
saveToCache(tbl, t, artist, title, video) ==
  LET normalizedArtist == normalized(artist)
      normalizedTitle == normalized(title)
      existing == cacheIndex(tbl, normalizedArtist, normalizedTitle)
  IN IF existing # 0
       THEN [tbl EXCEPT ![existing].youtubeId = video.youtubeId,
                        ![existing].durationSeconds = video.durationSeconds,
                        ![existing].cachedAt = t,
                        ![existing].lastUsedAt = t,
                        ![existing].useCount = @ + 1]
       ELSE Append(tbl, [artist |-> normalizedArtist,
                         title |-> normalizedTitle,
                         youtubeId |-> video.youtubeId,
                         durationSeconds |-> video.durationSeconds,
                         cachedAt |-> t, lastUsedAt |-> t, useCount |-> 1])

\* the rows of a table at the indices in keep, in their order
RECURSIVE Keep(_, _, _)
Keep(tbl, keep, i) ==
  IF i > Len(tbl) THEN <<>>
  ELSE IF i \in keep THEN <<tbl[i]>> \o Keep(tbl, keep, i + 1)
  ELSE Keep(tbl, keep, i + 1)

\* a faulty variant of cleanupOldCache: every row cached before the cutoff
\* is deleted, used since or not
cleanupOldCacheByAge(tbl, t, daysToKeepArg) ==
  LET daysToKeep == IF daysToKeepArg # 0 THEN daysToKeepArg ELSE 90
      cutoffTime == t - (daysToKeep * 24 * 60 * 60 * Second)
      oldEntries == {i \in 1..Len(tbl) : tbl[i].cachedAt < cutoffTime}
  IN Keep(tbl, (1..Len(tbl)) \ oldEntries, 1)

\* cleanupOldCache (mutation): rows cached before the cutoff and not used
\* since the cutoff are deleted
cleanupOldCache(tbl, t, daysToKeepArg) ==
  LET daysToKeep == IF daysToKeepArg # 0 THEN daysToKeepArg ELSE 90
      cutoffTime == t - (daysToKeep * 24 * 60 * 60 * Second)
      oldEntries == {i \in 1..Len(tbl) : tbl[i].cachedAt < cutoffTime}
      deleted == {i \in oldEntries : tbl[i].lastUsedAt < cutoffTime}
  IN Keep(tbl, (1..Len(tbl)) \ deleted, 1)

(***************************************************************************)
(* youtubeApiKeyPool.ts                                                    *)
(***************************************************************************)
\* at most MaxLookups provider lookups are started
MaxLookups == 2
\* the clock of the key pool makes at most MaxKeyTicks steps of one day
MaxKeyTicks == 1

QUOTA_COSTS == [SEARCH |-> 100, VIDEO_DETAILS |-> 1, BATCH_VIDEO_DETAILS |-> 1]

API_KEY_CONFIG == [DAILY_QUOTA_LIMIT |-> 10000, KEYS |-> <<"key1", "key2">>]

KeyIndices == 1..Len(API_KEY_CONFIG.KEYS)

\* getPacificTimeDate: the runs of the key pool start at midnight Pacific
\* time, which is 08:00 UTC
getPacificTimeDate(t) == t \div Day

\* new Date().toISOString().split('T')[0]: the UTC date
utcDate(t) == (t + 8 * 60 * 60 * Second) \div Day

\* .withIndex("by_key_and_date", keyId, date).first(): the index of the
\* first such row, 0 when there is none
usageIndex(tbl, keyId, date) ==
  LET S == {i \in 1..Len(tbl) : tbl[i].keyId = keyId /\ tbl[i].date = date}
  IN IF S = {} THEN 0 ELSE CHOOSE i \in S : \A j \in S : i <= j

\* getKeyUsageToday (query); callsSuccessful, callsFailed and the
\* timestamps of a row are left out: nothing reads them
getKeyUsageToday(tbl, t, keyId) ==
  LET i == usageIndex(tbl, keyId, getPacificTimeDate(t))
  IN IF i # 0
       THEN [quotaUsed |-> tbl[i].quotaUsed,
             quotaExhausted |-> tbl[i].quotaExhausted]
       ELSE [quotaUsed |-> 0, quotaExhausted |-> FALSE]

\* updateKeyUsage (mutation): the table after the call
updateKeyUsage(tbl, t, keyId, quotaCost, success, errorCode) ==
  LET today == getPacificTimeDate(t)
      existing == usageIndex(tbl, keyId, today)
      quotaExhausted ==
        \/ errorCode = 403
        \/ (existing # 0 /\ tbl[existing].quotaExhausted /\ ~success)
  IN IF existing # 0
       THEN [tbl EXCEPT ![existing].quotaUsed = @ + quotaCost,
                        ![existing].quotaExhausted = quotaExhausted \/ @]
       ELSE Append(tbl, [keyId |-> keyId, date |-> today,
                         quotaUsed |-> quotaCost,
                         quotaExhausted |-> quotaExhausted])

\* canUse of getBestAvailableKey
canUse(usage, quotaCost) ==
  /\ ~usage.quotaExhausted
  /\ usage.quotaUsed + quotaCost <= API_KEY_CONFIG.DAILY_QUOTA_LIMIT

\* a faulty variant of getBestAvailableKey: the first usable key is taken,
\* whatever its usage
getFirstAvailableKey(seen, quotaCost) ==
  LET availableKeys == {i \in 1..Len(seen) : canUse(seen[i], quotaCost)}
  IN IF availableKeys = {} THEN Null
     ELSE API_KEY_CONFIG.KEYS[CHOOSE i \in availableKeys :
                                \A j \in availableKeys : i <= j]

\* a faulty variant of getBestAvailableKey: the exhausted flag is not looked at
getBestKeyIgnoringFlag(seen, quotaCost) ==
  LET availableKeys ==
        {i \in 1..Len(seen) :
           seen[i].quotaUsed + quotaCost <= API_KEY_CONFIG.DAILY_QUOTA_LIMIT}
  IN IF availableKeys = {} THEN Null
     ELSE API_KEY_CONFIG.KEYS[
            CHOOSE i \in availableKeys : \A j \in availableKeys :
              \/ seen[i].quotaUsed < seen[j].quotaUsed
              \/ (seen[i].quotaUsed = seen[j].quotaUsed /\ i <= j)]

\* getBestAvailableKey, once the usage of every key has been read into
\* seen (in the order of KEYS): the key the reduce settles on, the first of
\* those with the lowest quotaUsed; null stands for the thrown error
getBestAvailableKey(seen, quotaCost) ==
  LET availableKeys == {i \in 1..Len(seen) : canUse(seen[i], quotaCost)}
  IN IF availableKeys = {} THEN Null
     ELSE API_KEY_CONFIG.KEYS[
            CHOOSE i \in availableKeys : \A j \in availableKeys :
              \/ seen[i].quotaUsed < seen[j].quotaUsed
              \/ (seen[i].quotaUsed = seen[j].quotaUsed /\ i <= j)]

\* a faulty variant of resetFrom: a zero row for every key, whatever exists
resetAll(tbl, today, n) ==
  tbl \o [k \in KeyIndices |->
           [keyId |-> API_KEY_CONFIG.KEYS[k], date |-> today,
            quotaUsed |-> 0, quotaExhausted |-> FALSE]]

\* resetDailyQuota (mutation): a zero row for every key that has none today
RECURSIVE resetFrom(_, _, _)
resetFrom(tbl, today, n) ==
  IF n > Len(API_KEY_CONFIG.KEYS) THEN tbl
  ELSE resetFrom(
         IF usageIndex(tbl, API_KEY_CONFIG.KEYS[n], today) = 0
           THEN Append(tbl, [keyId |-> API_KEY_CONFIG.KEYS[n], date |-> today,
                             quotaUsed |-> 0, quotaExhausted |-> FALSE])
           ELSE tbl,
         today, n + 1)

\* what the key pool and the lookups leave alone
radioSide == <<currentTrack, queue, history, feedback, pc, loc, users,
               player>>

\* (a call that finds a row for every key changes nothing: a stuttering step)
resetDailyQuota ==
  /\ youtubeApiUsage' = resetFrom(youtubeApiUsage, getPacificTimeDate(now), 1)
  /\ youtubeApiUsage' # youtubeApiUsage
  /\ last' = [op |-> "resetDailyQuota", arg |-> 0, ret |-> Null]
  /\ UNCHANGED <<now, radioSide, youtubeCache, lpc, lloc, started>>

\* the patch of clearExhaustedStatus
clearRow(tbl, i) ==
  [tbl EXCEPT ![i].quotaExhausted = FALSE, ![i].quotaUsed = 0]

\* logger.ts: clearExhaustedStatus (mutation); it looks the row up under
\* the UTC date (a call that finds no row, or a row that is already clear,
\* changes nothing: a stuttering step)
clearExhaustedStatus(keyId) ==
  /\ LET usage == usageIndex(youtubeApiUsage, keyId, utcDate(now))
     IN /\ usage # 0
        /\ youtubeApiUsage' = clearRow(youtubeApiUsage, usage)
        /\ youtubeApiUsage' # youtubeApiUsage
        /\ last' = [op |-> "clearExhaustedStatus", arg |-> keyId,
                    ret |-> "success"]
  /\ UNCHANGED <<now, radioSide, youtubeCache, lpc, lloc, started>>

\* a day passes: the Pacific date and the UTC date move on together
TickKey ==
  /\ now < MaxKeyTicks * Day
  /\ now' = now + Day
  /\ last' = [op |-> "tick", arg |-> 0, ret |-> Null]
  /\ UNCHANGED <<radioSide, lookupVars>>

(***************************************************************************)
(* youtube.ts: findBestMatch and searchYouTube (actions) as processes.     *)
(* A fetch touches no table; it is one step with the updateKeyUsage that   *)
(* records it.  What the provider answers is up to the provider.           *)
(***************************************************************************)
\* the provider's answers to search.list: a video, no video, 403, another
\* error status
SearchResponses == {"items", "empty", "403", "500"}
\* ... and to videos.list: a usable video, nothing usable (no item, a live
\* broadcast, a duration out of range), 403, another error status
DetailsResponses == {"valid", "unusable", "403", "500"}

\* response.status of an answer, 200 when response.ok
statusOf(r) == IF r = "403" THEN 403 ELSE IF r = "500" THEN 500 ELSE 200

LGoto(p, l) == lpc' = [lpc EXCEPT ![p] = l]

\* the lookup of p returns (or throws): r tells how
LReturn(p) ==
  /\ LGoto(p, "idle")
  /\ lloc' = [lloc EXCEPT ![p] = LLocInit]

\* m1 runs findBestMatch (discovery), m2 runs searchYouTube
HandlerOfLookup(p) == IF p = "m1" THEN "findBestMatch" ELSE "searchYouTube"

\* the two lookups ask for the same track in different spellings
SpellingOf(p) == IF p = "m1" THEN 1 ELSE 2

\* a lookup starts; findBestMatch looks into the cache first
LookupStart(p, h, a) ==
  /\ lpc[p] = "idle"
  /\ started < MaxLookups
  /\ started' = started + 1
  /\ lloc' = [lloc EXCEPT ![p] = [LLocInit EXCEPT !.h = h, !.a = a]]
  /\ LGoto(p, IF h = "findBestMatch" THEN "fbm_cache" ELSE "sel")
  /\ last' = [op |-> h, arg |-> p, ret |-> "started"]
  /\ UNCHANGED <<now, radioSide, youtubeApiUsage, youtubeCache>>

\* findBestMatch: getCachedMatch
FbmCache(p) ==
  /\ lpc[p] = "fbm_cache"
  /\ LET cached == getCachedMatch(youtubeCache, LookupArgs[lloc[p].a].artist,
                                  LookupArgs[lloc[p].a].title)
     IN /\ IF cached.cacheId # 0
             THEN /\ LGoto(p, "fbm_use")
                  /\ lloc' = [lloc EXCEPT ![p].hit = cached.cacheId]
             ELSE LGoto(p, "sel") /\ UNCHANGED lloc
        /\ last' = [op |-> "getCachedMatch", arg |-> lloc[p].a, ret |-> cached]
  /\ UNCHANGED <<now, radioSide, youtubeApiUsage, youtubeCache, started>>

\* findBestMatch: updateCacheUsage, then the cached video is returned
FbmUse(p) ==
  /\ lpc[p] = "fbm_use"
  /\ youtubeCache' = updateCacheUsage(youtubeCache, now, lloc[p].hit)
  /\ LReturn(p)
  /\ last' = [op |-> "findBestMatch", arg |-> p, ret |-> "cached"]
  /\ UNCHANGED <<now, radioSide, youtubeApiUsage, started>>

\* getBestAvailableKey (action): one getKeyUsageToday query per key
SelRead(p) ==
  /\ lpc[p] = "sel"
  /\ LET n == Len(lloc[p].seen) + 1
     IN /\ lloc' = [lloc EXCEPT ![p].seen =
                      Append(@, getKeyUsageToday(youtubeApiUsage, now,
                                                 API_KEY_CONFIG.KEYS[n]))]
        /\ IF n = Len(API_KEY_CONFIG.KEYS)
             THEN LGoto(p, "sel_done") ELSE UNCHANGED lpc
  /\ last' = [op |-> "getKeyUsageToday", arg |-> p, ret |-> Null]
  /\ UNCHANGED <<now, radioSide, youtubeApiUsage, youtubeCache, started>>

\* a faulty variant of SelDecide: after the error the selection is retried
SelDecideRetries(p) ==
  /\ lpc[p] = "sel_done"
  /\ LET bestKey == getBestAvailableKey(lloc[p].seen, QUOTA_COSTS.SEARCH)
     IN /\ IF bestKey = Null
             THEN /\ LGoto(p, "sel")
                  /\ lloc' = [lloc EXCEPT ![p].seen = <<>>]
             ELSE /\ LGoto(p, "search")
                  /\ lloc' = [lloc EXCEPT ![p].key = bestKey, ![p].i = 1,
                                          ![p].seen = <<>>]
        /\ last' = [op |-> "getBestAvailableKey", arg |-> p, ret |-> bestKey]
  /\ UNCHANGED <<now, radioSide, youtubeApiUsage, youtubeCache, started>>

\* getBestAvailableKey: the key is chosen from what was read, or the error
\* is thrown, which ends the lookup (operation "search" in both handlers)
SelDecide(p) ==
  /\ lpc[p] = "sel_done"
  /\ LET bestKey == getBestAvailableKey(lloc[p].seen, QUOTA_COSTS.SEARCH)
     IN /\ IF bestKey = Null
             THEN LReturn(p)
             ELSE /\ LGoto(p, "search")
                  /\ lloc' = [lloc EXCEPT ![p].key = bestKey, ![p].i = 1,
                                          ![p].seen = <<>>]
        /\ last' = [op |-> "getBestAvailableKey", arg |-> p, ret |-> bestKey]
  /\ UNCHANGED <<now, radioSide, youtubeApiUsage, youtubeCache, started>>

\* findBestMatch: "continue" of the loop over the three search queries
Continue(p) ==
  IF lloc[p].i < 3
    THEN LGoto(p, "search") /\ lloc' = [lloc EXCEPT ![p].i = @ + 1]
    ELSE LReturn(p)

\* the search.list call and the updateKeyUsage that records it
Search(p) ==
  /\ lpc[p] = "search"
  /\ \E r \in SearchResponses :
       /\ youtubeApiUsage' =
            updateKeyUsage(youtubeApiUsage, now, lloc[p].key,
                           QUOTA_COSTS.SEARCH, statusOf(r) = 200, statusOf(r))
       /\ IF lloc[p].h = "searchYouTube" THEN LReturn(p)
          ELSE IF r = "items" THEN LGoto(p, "details") /\ UNCHANGED lloc
          ELSE IF r = "403" THEN LReturn(p)
          ELSE Continue(p)
       /\ last' = [op |-> "updateKeyUsage", arg |-> p, ret |-> Null]
  /\ UNCHANGED <<now, radioSide, youtubeCache, started>>

\* findBestMatch: the videos.list call and the updateKeyUsage that records it
Details(p) ==
  /\ lpc[p] = "details"
  /\ \E r \in DetailsResponses :
       /\ youtubeApiUsage' =
            updateKeyUsage(youtubeApiUsage, now, lloc[p].key,
                           QUOTA_COSTS.VIDEO_DETAILS, statusOf(r) = 200,
                           statusOf(r))
       /\ IF r = "valid" THEN LGoto(p, "save") /\ UNCHANGED lloc
          ELSE Continue(p)
       /\ last' = [op |-> "updateKeyUsage", arg |-> p, ret |-> Null]
  /\ UNCHANGED <<now, radioSide, youtubeCache, started>>

\* findBestMatch: saveToCache, then the match is returned
Save(p) ==
  /\ lpc[p] = "save"
  /\ LET video == FoundVideo
     IN /\ youtubeCache' =
             saveToCache(youtubeCache, now, LookupArgs[lloc[p].a].artist,
                         LookupArgs[lloc[p].a].title, video)
        /\ last' = [op |-> "saveToCache", arg |-> lloc[p].a, ret |-> video]
  /\ LReturn(p)
  /\ UNCHANGED <<now, radioSide, youtubeApiUsage, started>>

\* the usage the two keys can have run up earlier in the day: 99 searches
\* and 50 detail calls on key1 and nothing on key2, or 99 searches on each
InitQuotaUsed == {<<9950, 0>>, <<9900, 9900>>}

InitKeys ==
  /\ now = 0
  /\ RadioInit
  /\ last = [op |-> "init", arg |-> 0, ret |-> Null]
  /\ \/ youtubeApiUsage = <<>>
     \/ \E u \in InitQuotaUsed :
          youtubeApiUsage =
            << [keyId |-> "key1", date |-> 0, quotaUsed |-> u[1],
                quotaExhausted |-> FALSE],
               [keyId |-> "key2", date |-> 0, quotaUsed |-> u[2],
                quotaExhausted |-> FALSE] >>
  /\ youtubeCache = <<>>
  /\ LookupIdle

NextKeys ==
  \/ TickKey
  \/ resetDailyQuota
  \/ \E k \in {"key1", "key2"} : clearExhaustedStatus(k)
  \/ \E p \in Lookups : LookupStart(p, HandlerOfLookup(p), SpellingOf(p))
  \/ \E p \in Lookups : FbmCache(p)
  \/ \E p \in Lookups : FbmUse(p)
  \/ \E p \in Lookups : SelRead(p)
  \/ \E p \in Lookups : SelDecide(p)
  \/ \E p \in Lookups : Search(p)
  \/ \E p \in Lookups : Details(p)
  \/ \E p \in Lookups : Save(p)

SpecKeys == InitKeys /\ [][NextKeys]_vars

(***************************************************************************)
(* Properties of the key pool                                              *)
(***************************************************************************)
\* the rows of today (Pacific date) that belong to key k
RowsToday(k) ==
  {i \in 1..Len(youtubeApiUsage) :
     /\ youtubeApiUsage[i].keyId = k
     /\ youtubeApiUsage[i].date = getPacificTimeDate(now)}

\* C6, as stated: no key's quotaUsed for a day exceeds the daily budget
\* (10,000) plus the cost of one operation in flight (a search, 100).
C6_QuotaWithinBudget ==
  \A i \in 1..Len(youtubeApiUsage) :
    youtubeApiUsage[i].quotaUsed <= 10000 + 100

\* C7, as stated: a key with budget for exactly one more search is never
\* granted to two callers at once, that is, to two lookups that have both
\* selected it and have not recorded a call yet.
C7_NoDoubleSpend ==
  \A k \in {"key1", "key2"} :
    ~(/\ \A p \in Lookups :
           lpc[p] = "search" /\ lloc[p].i = 1 /\ lloc[p].key = k
      /\ \E i \in RowsToday(k) :
           /\ youtubeApiUsage[i].quotaUsed + 100 <= 10000
           /\ youtubeApiUsage[i].quotaUsed + 2 * 100 > 10000)

\* what a getKeyUsageToday query on key k has to return
RecordedUsage(k) ==
  IF RowsToday(k) = {}
    THEN [quotaUsed |-> 0, quotaExhausted |-> FALSE]
    ELSE LET i == CHOOSE i \in RowsToday(k) : TRUE
         IN [quotaUsed |-> youtubeApiUsage[i].quotaUsed,
             quotaExhausted |-> youtubeApiUsage[i].quotaExhausted]

\* the keys (indices into KEYS) a selection may return, given the usage it
\* read: unflagged and used + cost within the budget
UsableSeen(seen, cost) ==
  {i \in 1..Len(seen) :
     ~seen[i].quotaExhausted /\ seen[i].quotaUsed + cost <= 10000}

\* C8: a selection reads each key's recorded usage of the day and returns,
\* among the keys that are unflagged and have used + cost <= budget, one
\* with the lowest recorded usage; it never returns a flagged or
\* over-budget key, and fails when no key qualifies.
C8_SelectKeyLeastUsed ==
  [][/\ last'.op = "getKeyUsageToday" =>
          LET seen == lloc'[last'.arg].seen
              n == Len(seen)
          IN /\ n = Len(lloc[last'.arg].seen) + 1
             /\ seen[n] = RecordedUsage(API_KEY_CONFIG.KEYS[n])
     /\ last'.op = "getBestAvailableKey" =>
          LET seen == lloc[last'.arg].seen
              usable == UsableSeen(seen, 100)
          IN /\ Len(seen) = 2
             /\ IF usable = {}
                  THEN last'.ret = Null
                  ELSE \E i \in usable :
                         /\ last'.ret = API_KEY_CONFIG.KEYS[i]
                         /\ \A j \in usable :
                              seen[i].quotaUsed <= seen[j].quotaUsed]_vars

\* the example of the claim: key1 has used 9,950 and key2 nothing, and a
\* selection for a search (cost 100) has just returned key2
C8_Witness ==
  /\ last.op = "getBestAvailableKey"
  /\ last.ret = "key2"
  /\ RecordedUsage("key1") = [quotaUsed |-> 9950, quotaExhausted |-> FALSE]
  /\ RecordedUsage("key2") = [quotaUsed |-> 0, quotaExhausted |-> FALSE]

MaxUseCount == 3
\* the cache table holds at most MaxCacheRows rows
MaxCacheRows == 3
\* the clock of the cache makes at most MaxCacheTicks steps of 45 days
MaxCacheTicks == 3

\* what the cache leaves alone
cacheFrame == <<radioSide, youtubeApiUsage, lpc, lloc, started>>

\* saveToCache({artist, title, ...video})
SaveToCache(a, video) ==
  /\ youtubeCache' = saveToCache(youtubeCache, now, LookupArgs[a].artist,
                                 LookupArgs[a].title, video)
  /\ Len(youtubeCache') <= MaxCacheRows
  /\ \A i \in 1..Len(youtubeCache') : youtubeCache'[i].useCount <= MaxUseCount
  /\ last' = [op |-> "saveToCache", arg |-> a, ret |-> video]
  /\ UNCHANGED <<now, cacheFrame>>

\* getCachedMatch({artist, title})
GetCachedMatch(a) ==
  /\ last' = [op |-> "getCachedMatch", arg |-> a,
              ret |-> getCachedMatch(youtubeCache, LookupArgs[a].artist,
                                     LookupArgs[a].title)]
  /\ UNCHANGED <<now, youtubeCache, cacheFrame>>

\* updateCacheUsage({cacheId}); a row that is gone changes nothing
UpdateCacheUsage(cacheId) ==
  /\ youtubeCache' = updateCacheUsage(youtubeCache, now, cacheId)
  /\ youtubeCache' # youtubeCache
  /\ \A i \in 1..Len(youtubeCache') : youtubeCache'[i].useCount <= MaxUseCount
  /\ last' = [op |-> "updateCacheUsage", arg |-> cacheId, ret |-> Null]
  /\ UNCHANGED <<now, cacheFrame>>

\* cleanupOldCache({daysToKeep}); the weekly cron passes 90 (crons.ts:80),
\* and 0 stands for a call without the argument
CleanupOldCache(daysToKeep) ==
  /\ youtubeCache' = cleanupOldCache(youtubeCache, now, daysToKeep)
  /\ youtubeCache' # youtubeCache
  /\ last' = [op |-> "cleanupOldCache", arg |-> daysToKeep, ret |-> Null]
  /\ UNCHANGED <<now, cacheFrame>>

\* 45 days pass
TickCache ==
  /\ now < MaxCacheTicks * 45 * Day
  /\ now' = now + 45 * Day
  /\ last' = [op |-> "tick", arg |-> 0, ret |-> Null]
  /\ UNCHANGED <<youtubeCache, cacheFrame>>

NextCache ==
  \/ TickCache
  \/ \E a \in 1..Len(LookupArgs), video \in Videos : SaveToCache(a, video)
  \/ \E a \in 1..Len(LookupArgs) : GetCachedMatch(a)
  \/ \E cacheId \in 1..MaxCacheRows : UpdateCacheUsage(cacheId)
  \/ \E daysToKeep \in {0, 30} : CleanupOldCache(daysToKeep)

SpecCache == Init /\ [][NextCache]_vars

(***************************************************************************)
(* Properties of the cache                                                 *)
(***************************************************************************)
\* the rows of tbl filed under the normalized key of the arguments a
Entries(tbl, a) ==
  {i \in 1..Len(tbl) :
     /\ tbl[i].artist = normalized(LookupArgs[a].artist)
     /\ tbl[i].title = normalized(LookupArgs[a].title)}

\* the videos these rows hold
EntryValues(tbl, a) ==
  {[youtubeId |-> tbl[i].youtubeId,
    durationSeconds |-> tbl[i].durationSeconds] : i \in Entries(tbl, a)}

\* C10: the cache is an upsert store.  In every reachable state there is at
\* most one row per normalized (artist, title) key; after saveToCache(k, v)
\* the row of k holds exactly v, whatever was saved under k before; no other
\* call than a save under the same key or the retention sweep changes what
\* a key holds; and getCachedMatch(k) returns exactly what the row of k
\* holds.  So Upsert(k, v); Upsert(k, v'); Lookup(k) returns v'.
C10_CacheUpsert ==
  /\ [](\A i, j \in 1..Len(youtubeCache) :
          (/\ youtubeCache[i].artist = youtubeCache[j].artist
           /\ youtubeCache[i].title = youtubeCache[j].title) => i = j)
  /\ [][/\ last'.op = "saveToCache" =>
             EntryValues(youtubeCache', last'.arg) = {last'.ret}
        /\ \A a \in 1..Len(LookupArgs) :
             \/ last'.op = "cleanupOldCache"
             \/ /\ last'.op = "saveToCache"
                /\ Entries(youtubeCache', a) = Entries(youtubeCache', last'.arg)
             \/ EntryValues(youtubeCache', a) = EntryValues(youtubeCache, a)
        /\ last'.op = "getCachedMatch" =>
             IF Entries(youtubeCache, last'.arg) = {}
               THEN last'.ret.videoId = Null
               ELSE EntryValues(youtubeCache, last'.arg) =
                      {[youtubeId |-> last'.ret.videoId,
                        durationSeconds |-> last'.ret.durationSeconds]}]_vars

\* a key saved a second time, later and with the other video, has just been
\* looked up: the lookup returns the video of the second save
C10_Witness ==
  /\ last.op = "getCachedMatch"
  /\ last.ret.videoId = "v2"
  /\ \E i \in Entries(youtubeCache, last.arg) :
       /\ youtubeCache[i].useCount = 2
       /\ youtubeCache[i].cachedAt > 0
       /\ youtubeCache[i].cachedAt = youtubeCache[i].lastUsedAt
  /\ Len(youtubeCache) = 2

(***************************************************************************)
(* The single current track                                                *)
(***************************************************************************)
\* C11: in every state reached by the interleaved steps of the expiration
\* checker, the health controller, skip requests and their advancement
\* wrapper, the currentTrack table holds at most one row, and a step changes
\* the table only when it is an advanceToNextTrack call that returns a
\* track.
C11_SingleCurrentTrack ==
  /\ [](Len(currentTrack) <= 1)
  /\ [][currentTrack' # currentTrack =>
          /\ last'.op = "advanceToNextTrack"
          /\ last'.ret # Null
          /\ Len(currentTrack') = 1
          /\ currentTrack'[1].startedAt = now]_vars

\* between the steps of two overlapping actions: the skip request has
\* replaced the current track and still has its queue update to run, while
\* the checker stands between its read of the queue and its own advance
C11_Witness ==
  /\ last.op = "advanceToNextTrack"
  /\ last.ret = "queue"
  /\ pc["skip"] = "post_status"
  /\ pc["checker"] = "wrap_mutate"
  /\ Len(currentTrack) = 1
  /\ Len(history) >= 1

\* C12: advanceToNextTrack returns null exactly when the queue is empty and
\* getRandomHistoryTrack finds no candidate in the history, and such a call
\* leaves the currentTrack row, every queue row and every history row as
\* they were before the call.
C12_NotAvailableChangesNothing ==
  [][last'.op = "advanceToNextTrack" =>
       /\ (last'.ret = Null) <=>
            (queue = <<>> /\ ~C2_HasFallback(history, now))
       /\ last'.ret = Null =>
            /\ currentTrack' = currentTrack
            /\ queue' = queue
            /\ history' = history
            /\ feedback' = feedback]_vars

\* a call has just returned null while a track is current and the history
\* holds a row, too recent and too new to be replayed: the track stays
C12_Witness ==
  /\ last.op = "advanceToNextTrack"
  /\ last.ret = Null
  /\ currentTrack # <<>>
  /\ history # <<>>
  /\ queue = <<>>

(***************************************************************************)
(* The queue                                                               *)
(***************************************************************************)
\* C13: the rows of the queue, in the order of their insertion, carry
\* ascending createdAt; an advanceToNextTrack call on a non-empty queue
\* installs the row with the smallest createdAt, which is the row enqueued
\* first, as the current track, archives the previous current track, and
\* deletes that row and no other.  So queued tracks become current in the
\* order in which they were enqueued.
C13_QueueIsFifo ==
  /\ [](\A i, j \in 1..Len(queue) :
          i < j => queue[i].createdAt <= queue[j].createdAt)
  /\ [][(last'.op = "advanceToNextTrack" /\ queue # <<>>) =>
          /\ last'.ret = "queue"
          /\ \A j \in 1..Len(queue) :
               queue[1].createdAt <= queue[j].createdAt
          /\ Len(currentTrack') = 1
          /\ currentTrack'[1].discogsId = queue[1].discogsId
          /\ currentTrack'[1].durationSeconds = queue[1].durationSeconds
          /\ Len(queue') = Len(queue) - 1
          /\ queue' = Tail(queue)
          /\ currentTrack # <<>> =>
               /\ Len(history') = Len(history) + 1
               /\ history'[Len(history')].discogsId =
                    currentTrack[1].discogsId]_vars

\* the older of two queue rows has just replaced a current track, which went
\* to the history; the row enqueued later, at a later time, is still queued
C13_Witness ==
  /\ last.op = "advanceToNextTrack"
  /\ last.ret = "queue"
  /\ Len(queue) = 1
  /\ queue[1].discogsId # last.arg
  /\ queue[1].createdAt > 0
  /\ history # <<>>
  /\ history[Len(history)].playedAt < queue[1].createdAt

\* C14: in every state reached by addToQueue calls (of discovery runs) and
\* addTrackManually calls in any order, mixed with advances, removals and
\* clock steps, no two rows of the queue carry the same discogsId.
C14_NoDuplicateInQueue ==
  \A i, j \in 1..Len(queue) :
    queue[i].discogsId = queue[j].discogsId => i = j

\* a manual addition of a track that a discovery run has queued has just
\* been refused
C14_Witness ==
  /\ last.op = "addTrackManually"
  /\ last.ret = "Track already in queue"
  /\ Len(queue) = 2
  /\ \E i \in 1..Len(queue) : queue[i].discogsId = last.arg

(***************************************************************************)
(* The expiration checker                                                  *)
(***************************************************************************)
\* C15: whenever checkAndAdvanceTrack reads a currentTrack row, its decision
\* is the hasExpired that getCurrentTrackStatus gives the clients for that
\* row at that instant (duration - (now - startedAt) <= 0, the duration
\* being 180 s when the row has none).  When it is true the run goes on to
\* call advanceToNextTrackWithContext; when it is false the run ends with
\* action "none" and no table has changed.
C15_CheckerDecision ==
  [][(/\ pc["checker"] = "idle"
      /\ pc'["checker"] # "idle" \/ last'.op = "checkAndAdvanceTrack"
      /\ currentTrack # <<>>) =>
       LET timing == getCurrentTrackStatus(currentTrack[1], now)
       IN /\ timing.hasExpired =>
               /\ pc'["checker"] = "wrap_read"
               /\ loc'["checker"].branch = "expired"
          /\ ~timing.hasExpired =>
               /\ pc'["checker"] = "idle"
               /\ last'.op = "checkAndAdvanceTrack"
               /\ last'.ret = "none"
          /\ radioVars' = radioVars]_vars

\* the checker has found a track without a duration expired at the very
\* instant its default 180 s are over, and is about to ask for the advance
C15_Witness ==
  /\ pc["checker"] = "wrap_read"
  /\ loc["checker"].branch = "expired"
  /\ currentTrack # <<>>
  /\ currentTrack[1].durationSeconds = 0
  /\ now - currentTrack[1].startedAt = 180 * Second

(***************************************************************************)
(* Discovery against a full queue                                          *)
(***************************************************************************)
\* C16, as stated: a discovery request that finds queueLength >= max is
\* refused, the forced ones included: the run ends at its queue check and
\* the queue is as it was.
C16_FullQueueRefuses ==
  [][\A p \in Crons :
       (/\ pc[p] = "disc_check"
        /\ pc'[p] # "disc_check"
        /\ Len(queue) >= MAX_QUEUE_SIZE) =>
         /\ pc'[p] = "idle"
         /\ queue' = queue]_vars

(***************************************************************************)
(* Skip requests                                                           *)
(***************************************************************************)
\* C17, as stated: a skip request of a controller reports success only when
\* the stream advanced, that is, when the advanceToNextTrack call of its run
\* returned the id of a new current track.
C17_SkipSuccessMeansAdvanced ==
  [][(/\ pc["skip"] # "idle"
      /\ last'.op = "skipCurrentTrack"
      /\ last'.ret = "success") =>
       /\ pc["skip"] # "wrap_read"
       /\ loc["skip"].wret # Null]_vars

\* the user with id u has a row whose role is "controller"
C18_HasControllerRole(u) ==
  u \in DOMAIN users /\ users[u].role = "controller"

\* C18: skipCurrentTrack and clearQueue run only for a caller whose users
\* row has the role "controller".  For every other caller (a listener, an
\* id without row) they fail with their error at the gate, and currentTrack, queue, history and feedback are as before the
\* call.  No step of these actions writes the users table.
C18_NonControllerRefused ==
  /\ [](\A p \in {"skip", "clear"} :
          pc[p] # "idle" => C18_HasControllerRole(loc[p].user))
  /\ [][/\ (last'.op = "skipCurrentTrack"
             /\ ~C18_HasControllerRole(last'.arg)) =>
            /\ last'.ret = "Only controllers can skip tracks"
            /\ <<currentTrack, queue, history, feedback>>' =
                 <<currentTrack, queue, history, feedback>>
            /\ pc' = pc
        /\ (last'.op = "clearQueue"
             /\ ~C18_HasControllerRole(last'.arg)) =>
            /\ last'.ret = "Only controllers can clear queue"
            /\ <<currentTrack, queue, history, feedback>>' =
                 <<currentTrack, queue, history, feedback>>
            /\ pc' = pc
        /\ users' = users]_vars

\* a listener's skip request has just been refused while a track is current
\* and another one is queued
C18_Witness ==
  /\ last.op = "skipCurrentTrack"
  /\ last.arg = "listener"
  /\ last.ret = "Only controllers can skip tracks"
  /\ currentTrack # <<>>
  /\ queue # <<>>
  /\ pc["clear"] = "clear_remove"

(***************************************************************************)
(* Who may advance                                                         *)
(***************************************************************************)
\* C19, as stated: the current track is replaced only by an advance made on
\* behalf of a system timer (checker, health controller) or of a caller
\* whose users row has the role "controller".
C19_AdvanceIsPrivileged ==
  [][currentTrack' # currentTrack =>
       \E p \in Actors :
         /\ pc[p] = "wrap_mutate"
         /\ pc'[p] = "post_status"
         /\ \/ p \in {"checker", "health"}
            \/ C18_HasControllerRole(loc[p].user)]_vars

(***************************************************************************)
(* The intro handoff                                                       *)
(***************************************************************************)
\* C20, as stated: whenever the player is in IntroPlaying it is in
\* MainPlaying some time later, whatever the intro audio does.
C20_IntroLeadsToMain ==
  player.isPlayingTransition ~>
    (player.transitionEnded /\ ~player.isPlayingTransition)

(***************************************************************************)
(* The history ledger                                                      *)
(***************************************************************************)
\* row i of the history keeps its catalog id, duration and playedAt; the
\* replay bookkeeping changes only when the fallback of advanceToNextTrack
\* reuses the row, by one replay at the current time
C21_RowKept(i) ==
  /\ history'[i].discogsId = history[i].discogsId
  /\ history'[i].durationSeconds = history[i].durationSeconds
  /\ history'[i].playedAt = history[i].playedAt
  /\ (\/ history'[i].replayCount # history[i].replayCount
      \/ history'[i].lastReplayedAt # history[i].lastReplayedAt)
       => /\ last'.op = "advanceToNextTrack"
          /\ last'.ret = "history"
          /\ history'[i].replayCount = history[i].replayCount + 1
          /\ history'[i].lastReplayedAt = now

\* C21, as stated: no step removes a history row, and the only change of an
\* existing row is the replay bookkeeping of a fallback.
C21_HistoryAppendOnly ==
  [][/\ Len(history') >= Len(history)
     /\ \A i \in 1..Len(history) :
          /\ C21_RowKept(i)
          /\ history'[i].likedBy = history[i].likedBy]_vars

\* C21, amended: history rows are removed only by the maintenance mutation
\* deleteHistoryEntry, one row per call, and cleanupOldHistory calls it only
\* for rows played more than daysToKeep days ago; every other step keeps
\* every row in place with its catalog id and playedAt, and changes in an
\* existing row only the replay bookkeeping (a fallback advance) or the
\* likedBy list (toggleLike).
C21_HistoryKeepsEntries ==
  [][IF last'.op = "deleteHistoryEntry" /\ last'.ret = "deleted"
       THEN \E i \in 1..Len(history) :
              /\ history' = RemoveAt(history, i)
              /\ pc["cleanup"] = "clean_delete" =>
                   history[i].playedAt <
                     now - loc["cleanup"].dcount * 24 * 60 * 60 * Second
       ELSE /\ Len(history') >= Len(history)
            /\ \A i \in 1..Len(history) :
                 /\ C21_RowKept(i)
                 /\ history'[i].likedBy # history[i].likedBy
                      => last'.op = "toggleLike"]_vars

\* cleanupOldHistory has just deleted a row and left a newer row that has
\* been replayed and liked
C21_Witness ==
  /\ last.op = "deleteHistoryEntry"
  /\ last.ret = "deleted"
  /\ \E i \in 1..Len(history) :
       history[i].replayCount > 0 /\ history[i].likedBy # {}

(***************************************************************************)
(* The key pool: exhaustion                                                *)
(***************************************************************************)
\* C22: a selection fails exactly when every key it read is flagged or has
\* used + cost beyond the budget; the lookup that gets the failure ends
\* there, without a provider call and without another selection: provider
\* calls are made only by a lookup that holds a selected key.
C22_ExhaustedIsHardStop ==
  [][/\ last'.op = "getBestAvailableKey" =>
          LET p == last'.arg
              seen == lloc[p].seen
          IN /\ (last'.ret = Null) <=>
                  \A i \in 1..Len(seen) :
                    \/ seen[i].quotaExhausted
                    \/ seen[i].quotaUsed + QUOTA_COSTS.SEARCH
                         > API_KEY_CONFIG.DAILY_QUOTA_LIMIT
             /\ last'.ret = Null =>
                  /\ lpc'[p] = "idle"
                  /\ lloc'[p] = LLocInit
                  /\ youtubeApiUsage' = youtubeApiUsage
                  /\ youtubeCache' = youtubeCache
     /\ last'.op = "updateKeyUsage" =>
          /\ lloc[last'.arg].key # Null
          /\ lpc[last'.arg] \in {"search", "details"}]_vars

\* a selection has just failed for two different reasons: one key is
\* unflagged but has no budget left for a search, the other has budget but
\* is flagged; the lookup has ended
C22_Witness ==
  /\ last.op = "getBestAvailableKey"
  /\ last.ret = Null
  /\ lpc[last.arg] = "idle"
  /\ \E k \in {"key1", "key2"} :
       /\ ~RecordedUsage(k).quotaExhausted
       /\ RecordedUsage(k).quotaUsed + 100 > 10000
  /\ \E k \in {"key1", "key2"} :
       /\ RecordedUsage(k).quotaExhausted
       /\ RecordedUsage(k).quotaUsed + 100 <= 10000

\* C23: the table never holds two rows for the same key and day, while
\* lookups record their usage concurrently and the daily reset runs; the
\* reset leaves every existing row as it is and appends only zero rows,
\* for today and for keys without a row of today.
C23_OneRecordPerKeyDay ==
  /\ [](\A i, j \in 1..Len(youtubeApiUsage) :
          (/\ youtubeApiUsage[i].keyId = youtubeApiUsage[j].keyId
           /\ youtubeApiUsage[i].date = youtubeApiUsage[j].date) => i = j)
  /\ [][last'.op = "resetDailyQuota" =>
          /\ Len(youtubeApiUsage') >= Len(youtubeApiUsage)
          /\ SubSeq(youtubeApiUsage', 1, Len(youtubeApiUsage))
               = youtubeApiUsage
          /\ \A i \in (Len(youtubeApiUsage) + 1)..Len(youtubeApiUsage') :
               /\ youtubeApiUsage'[i].quotaUsed = 0
               /\ ~youtubeApiUsage'[i].quotaExhausted
               /\ youtubeApiUsage'[i].date = getPacificTimeDate(now)
               /\ RowsToday(youtubeApiUsage'[i].keyId) = {}]_vars

\* the reset has just run on a new day while a lookup that has already
\* recorded usage for that day is still calling the provider
C23_Witness ==
  /\ last.op = "resetDailyQuota"
  /\ Len(youtubeApiUsage) >= 3
  /\ \E p \in Lookups : lpc[p] = "search"
  /\ \E k \in {"key1", "key2"} : RecordedUsage(k).quotaUsed > 0
  /\ \E k \in {"key1", "key2"} : RecordedUsage(k).quotaUsed = 0

(***************************************************************************)
(* Discovery batches                                                       *)
(***************************************************************************)
\* C24: when a candidate of a scheduled discovery run raises an error and
\* candidates remain, the run goes on with the next candidate and the queue
\* is as before; a run ends with candidates left only at the queue-full
\* check that follows an enqueue.
C24_CandidateFailureKeepsBatch ==
  [][\A p \in Crons :
       /\ (/\ pc[p] = "disc_track"
           /\ loc[p].dleft > 1
           /\ loc'[p].derrors # loc[p].derrors)
            => /\ pc'[p] = "disc_track"
               /\ loc'[p].dleft = loc[p].dleft - 1
               /\ queue' = queue
       /\ (/\ pc[p] \in {"disc_track", "disc_status"}
           /\ pc'[p] \notin {"disc_track", "disc_status"}
           /\ loc[p].dleft > 1)
            => /\ pc[p] = "disc_status"
               /\ Len(queue) >= MAX_QUEUE_SIZE]_vars

\* a run is at its last candidate after the one before raised an error,
\* with room left in the queue
C24_Witness ==
  \E p \in Crons :
    /\ pc[p] = "disc_track"
    /\ loc[p].derrors = 1
    /\ loc[p].dleft = 1
    /\ Len(queue) < MAX_QUEUE_SIZE
    /\ queue # <<>>

(***************************************************************************)
(* Track Advancement: its effect on the history                            *)
(***************************************************************************)
\* C25: an advanceToNextTrack call that installs a track while a current
\* track exists appends exactly one history row, with that track's catalog
\* id and playedAt equal to its startedAt, and leaves the new track as the
\* only current row; a call without a current track appends nothing; and
\* no other step makes the history grow.
C25_ArchivedOnceOnReplace ==
  [][/\ (last'.op = "advanceToNextTrack" /\ last'.ret # Null) =>
          /\ Len(currentTrack') = 1
          /\ currentTrack'[1].discogsId = last'.arg
          /\ currentTrack'[1].startedAt = now
          /\ IF currentTrack # <<>>
               THEN /\ Len(history') = Len(history) + 1
                    /\ history'[Len(history')].discogsId =
                         currentTrack[1].discogsId
                    /\ history'[Len(history')].playedAt =
                         currentTrack[1].startedAt
                    /\ history'[Len(history')].replayCount = 0
               ELSE Len(history') = Len(history)
     /\ Len(history') > Len(history) =>
          /\ last'.op = "advanceToNextTrack"
          /\ last'.ret # Null
          /\ currentTrack # <<>>]_vars

\* an advance has just archived a track that had started earlier, next to
\* an older history row
C25_Witness ==
  /\ last.op = "advanceToNextTrack"
  /\ last.ret # Null
  /\ Len(history) >= 2
  /\ history[Len(history)].playedAt < now
  /\ history[Len(history)].playedAt > history[1].playedAt
  /\ currentTrack[1].startedAt = now

\* C26: an advanceToNextTrack call served from the history changes exactly
\* one of the rows the history held before, a row of the track it installs:
\* replayCount goes up by one and lastReplayedAt becomes the current time;
\* every other field of that row, every other row that existed, and the
\* queue stay as they were.
C26_ReplayBookkeepingOnly ==
  [][(last'.op = "advanceToNextTrack" /\ last'.ret = "history") =>
       /\ queue' = queue
       /\ Len(history') >= Len(history)
       /\ \E i \in 1..Len(history) :
            /\ history[i].discogsId = last'.arg
            /\ history'[i] =
                 [history[i] EXCEPT !.replayCount = @ + 1,
                                    !.lastReplayedAt = now]
            /\ \A j \in 1..Len(history) :
                 j # i => history'[j] = history[j]]_vars

\* a history row has just been replayed for the second time, a day after
\* it was played, next to a row that was never replayed
C26_Witness ==
  /\ last.op = "advanceToNextTrack"
  /\ last.ret = "history"
  /\ \E i, j \in 1..Len(history) :
       /\ history[i].replayCount = 2
       /\ history[i].lastReplayedAt = now
       /\ history[i].playedAt < now
       /\ history[j].replayCount = 0

(***************************************************************************)
(* The History Fallback Selector                                           *)
(***************************************************************************)
\* the history rows played more than 24 h ago
C27_Old ==
  {i \in 1..Len(history) : now - history[i].playedAt > 24 * 60 * 60 * Second}

\* row i is what the selector may return: played more than 24 h ago when
\* the history holds such a row, and otherwise one of the newest HistoryTake
\* rows but none of the newest ExcludeRecent ones
C27_MayReturn(i) ==
  /\ IF C27_Old # {}
       THEN i \in C27_Old
       ELSE /\ Len(history) - i >= ExcludeRecent
            /\ Len(history) - i < HistoryTake
  /\ Len(history) - i < ExcludeRecent => i \in C27_Old

\* C27: the row getRandomHistoryTrack returns, to a caller of the query and
\* to advanceToNextTrack, was played more than 24 h ago whenever the history
\* holds such a row; only when it holds none is the row taken from the
\* newest HistoryTake rows without the newest ExcludeRecent ones.  So one of
\* the ExcludeRecent newest rows is returned only if it was played more
\* than 24 h ago.  Null is returned only when no row qualifies.
C27_FallbackPrefersOld ==
  [][/\ last'.op = "getRandomHistoryTrack" =>
          IF last'.ret = Null
            THEN \A i \in 1..Len(history) : ~C27_MayReturn(i)
            ELSE last'.arg \in 1..Len(history) /\ C27_MayReturn(last'.arg)
     /\ (last'.op = "advanceToNextTrack" /\ last'.ret = "history") =>
          \E i \in 1..Len(history) :
            /\ history'[i].replayCount = history[i].replayCount + 1
            /\ currentTrack'[1].discogsId = history[i].discogsId
            /\ C27_MayReturn(i)]_vars

\* the query has just returned the oldest of three rows, the only one that
\* was played more than 24 h ago, although the second tier would offer the
\* middle row too
C27_Witness ==
  /\ last.op = "getRandomHistoryTrack"
  /\ last.arg = 1
  /\ Len(history) = 3
  /\ C27_Old = {1}

(***************************************************************************)
(* The health controller                                                   *)
(***************************************************************************)
\* the step in which a run of maintainQueue reads the queue status and
\* decides
C28_Decides ==
  /\ pc["health"] = "idle"
  /\ \/ pc'["health"] # "idle"
     \/ last'.op = "maintainQueue"

\* the decision for an empty queue and for a queue below target: an
\* emergency batch, or a batch of the tracks needed
C28_Replenishes ==
  /\ Len(queue) = 0 =>
       /\ pc'["health"] = "disc_check"
       /\ loc'["health"].dfrom = "health_emergency"
       /\ loc'["health"].dcount = EmergencyBatch
  /\ (0 < Len(queue) /\ Len(queue) < TARGET_QUEUE_SIZE) =>
       /\ pc'["health"] = "disc_check"
       /\ loc'["health"].dfrom = "health"

\* no action: the run returns "none"
C28_NoAction ==
  /\ pc'["health"] = "idle"
  /\ last'.op = "maintainQueue"
  /\ last'.ret = "none"

\* C28, as stated: a run of maintainQueue starts an emergency batch when
\* the queue is empty, a batch when 0 < queueLength < target, the
\* advancement when target <= queueLength < max and there is no current
\* track, and does nothing in every other case.
C28_HealthFollowsRules ==
  [][C28_Decides =>
       /\ C28_Replenishes
       /\ Len(queue) >= TARGET_QUEUE_SIZE =>
            IF Len(queue) < MAX_QUEUE_SIZE /\ currentTrack = <<>>
              THEN pc'["health"] = "wrap_read"
              ELSE C28_NoAction]_vars

\* C28, amended: a run of maintainQueue starts an emergency batch when the
\* queue is empty, a batch when 0 < queueLength < target, the advancement
\* when queueLength >= target and there is no current track, whether or
\* not the queue has reached max, and does nothing in every other case;
\* the deciding step changes no table.
C28_HealthAdvancesWhenStalled ==
  [][C28_Decides =>
       /\ C28_Replenishes
       /\ Len(queue) >= TARGET_QUEUE_SIZE =>
            IF currentTrack = <<>>
              THEN pc'["health"] = "wrap_read"
              ELSE C28_NoAction
       /\ radioVars' = radioVars]_vars

\* a run has decided to advance although the queue is at its cap
C28_Witness ==
  /\ pc["health"] = "wrap_read"
  /\ Len(queue) >= MAX_QUEUE_SIZE
  /\ currentTrack = <<>>

CheckerStep ==
  \/ ChkStart
  \/ ChkStatus
  \/ ChkAfter
  \/ WrapRead("checker")
  \/ WrapMutate("checker")
  \/ PostStatus("checker")
  \/ DiscCheck("checker")
  \/ DiscTrackNoMatch("checker")
  \/ DiscTrackAdd("checker")
  \/ DiscStatus("checker")

HealthStep ==
  \/ HcStart
  \/ WrapRead("health")
  \/ WrapMutate("health")
  \/ PostStatus("health")
  \/ DiscCheck("health")
  \/ DiscTrackNoMatch("health")
  \/ DiscTrackAdd("health")
  \/ DiscStatus("health")

NextStall ==
  \/ CheckerStep
  \/ HealthStep
  \/ \E d \in Ids : addToQueue(d) /\ UNCHANGED <<procVars, lookupVars>>
  \/ TickSmall

SpecStall ==
  Init /\ [][NextStall]_vars /\ WF_vars(CheckerStep) /\ WF_vars(HealthStep)

\* C30: a stall is retried by the scheduled checks: once no current track
\* exists and the queue holds a track, a current track is eventually
\* installed
C30_StallIsRetried ==
  (currentTrack = <<>> /\ queue # <<>>) ~> (currentTrack # <<>>)

\* the checker has found the station stalled with a track queued and has
\* installed it
C30_Witness ==
  /\ last.op = "checkAndAdvanceTrack"
  /\ last.ret = "advanced_from_empty"
  /\ currentTrack # <<>>

\* C31: the queue never holds more than MAX_QUEUE_SIZE entries, whatever
\* discovery runs, additions and advancements interleave
C31_QueueWithinCap == Len(queue) <= MAX_QUEUE_SIZE

\* C32: a track retired on the expiration checker's expiry trigger has
\* expired at the moment the checker's advance retires it
C32_RetiredOnlyWhenExpired ==
  [][(/\ pc["checker"] = "wrap_mutate"
      /\ pc'["checker"] = "post_status"
      /\ loc["checker"].branch = "expired"
      /\ currentTrack # <<>>
      /\ Len(history') > Len(history))
       => hasExpired(currentTrack[1], now)]_vars

\* C33: when a track taken from the queue becomes current, its catalog id is
\* not among the catalog ids of the LastNTracks plays before it, which are
\* the newest rows of the history once the replaced track is archived
C33_NoRepeatWithinHorizon ==
  [][(last'.op = "advanceToNextTrack" /\ queue # <<>>)
       => \A i \in 1..Len(history') :
            i > Len(history') - LastNTracks
              => history'[i].discogsId # currentTrack'[1].discogsId]_vars

\* C34: when a call of findBestMatch made with key K is answered 403 (the
\* step flags K's row of the day) and another key is unflagged and within
\* budget while a search query is left, K is flagged and the lookup goes on
\* with a key other than K
C34_DeniedKeyIsReplaced ==
  [][\A p \in Lookups :
       LET k == lloc[p].key
       IN (/\ last'.op = "updateKeyUsage"
           /\ last'.arg = p
           /\ lloc[p].h = "findBestMatch"
           /\ lloc[p].i < 3
           /\ ~getKeyUsageToday(youtubeApiUsage, now, k).quotaExhausted
           /\ getKeyUsageToday(youtubeApiUsage', now, k).quotaExhausted
           /\ \E k2 \in {"key1", "key2"} \ {k} :
                canUse(getKeyUsageToday(youtubeApiUsage, now, k2),
                       QUOTA_COSTS.SEARCH))
            => /\ lpc'[p] # "idle"
               /\ lloc'[p].key # k]_vars

(***************************************************************************)
(* logger.ts: testRotation (action): three rounds of getBestAvailableKey   *)
(* for a search followed by updateKeyUsage of one search, run one after    *)
(* the other on a pool whose keys start the day with equal usage           *)
(***************************************************************************)
\* the searches each key has been charged before the run
MaxEarlierCalls == 100

\* testTracks.length
RotationRounds == 3

InitRotation ==
  /\ now = 0
  /\ RadioInit
  /\ last = [op |-> "init", arg |-> 0, ret |-> Null]
  /\ \/ youtubeApiUsage = <<>>
     \/ \E c \in 1..MaxEarlierCalls, f \in BOOLEAN :
          youtubeApiUsage =
            << [keyId |-> "key1", date |-> 0,
                quotaUsed |-> c * QUOTA_COSTS.SEARCH, quotaExhausted |-> f],
               [keyId |-> "key2", date |-> 0,
                quotaUsed |-> c * QUOTA_COSTS.SEARCH,
                quotaExhausted |-> FALSE] >>
  /\ youtubeCache = <<>>
  /\ LookupIdle

RotStart(p) ==
  /\ lpc[p] = "idle"
  /\ started < MaxLookups
  /\ started' = started + 1
  /\ lloc' = [lloc EXCEPT ![p] = [LLocInit EXCEPT !.h = "testRotation",
                                                  !.i = 1]]
  /\ LGoto(p, "sel")
  /\ last' = [op |-> "testRotation", arg |-> p, ret |-> "started"]
  /\ UNCHANGED <<now, radioSide, youtubeApiUsage, youtubeCache>>

\* the loop over testTracks moves on, or the run ends
RotNext(p) ==
  IF lloc[p].i < RotationRounds
    THEN /\ LGoto(p, "sel")
         /\ lloc' = [lloc EXCEPT ![p].i = @ + 1, ![p].seen = <<>>,
                                 ![p].key = Null]
    ELSE LReturn(p)

\* a faulty variant of RotDecide: the first usable key is taken, whatever
\* its usage
RotDecideFirst(p) ==
  /\ lpc[p] = "sel_done"
  /\ lloc[p].h = "testRotation"
  /\ LET bestKey == getFirstAvailableKey(lloc[p].seen, QUOTA_COSTS.SEARCH)
     IN /\ IF bestKey = Null
             THEN RotNext(p)
             ELSE /\ LGoto(p, "rot_record")
                  /\ lloc' = [lloc EXCEPT ![p].key = bestKey,
                                          ![p].seen = <<>>]
        /\ last' = [op |-> "getBestAvailableKey", arg |-> p, ret |-> bestKey]
  /\ UNCHANGED <<now, radioSide, youtubeApiUsage, youtubeCache, started>>

\* getBestAvailableKey decides; its error is caught by the round
RotDecide(p) ==
  /\ lpc[p] = "sel_done"
  /\ lloc[p].h = "testRotation"
  /\ LET bestKey == getBestAvailableKey(lloc[p].seen, QUOTA_COSTS.SEARCH)
     IN /\ IF bestKey = Null
             THEN RotNext(p)
             ELSE /\ LGoto(p, "rot_record")
                  /\ lloc' = [lloc EXCEPT ![p].key = bestKey,
                                          ![p].seen = <<>>]
        /\ last' = [op |-> "getBestAvailableKey", arg |-> p, ret |-> bestKey]
  /\ UNCHANGED <<now, radioSide, youtubeApiUsage, youtubeCache, started>>

\* updateKeyUsage({keyId, quotaCost: 100, success: true})
RotRecord(p) ==
  /\ lpc[p] = "rot_record"
  /\ youtubeApiUsage' =
       updateKeyUsage(youtubeApiUsage, now, lloc[p].key, QUOTA_COSTS.SEARCH,
                      TRUE, 200)
  /\ RotNext(p)
  /\ last' = [op |-> "testRotation", arg |-> p, ret |-> lloc[p].key]
  /\ UNCHANGED <<now, radioSide, youtubeCache, started>>

NextRotation ==
  \/ TickKey
  \/ RotStart("m1")
  \/ SelRead("m1")
  \/ RotDecide("m1")
  \/ RotRecord("m1")

SpecRotation == InitRotation /\ [][NextRotation]_vars

\* C35: after every select-and-record pair of the run, the quotaUsed of any
\* two keys that are unflagged and within budget differ by at most the cost
\* of one search
C35_GreedyBalances ==
  [][(last'.op = "testRotation" /\ last'.ret \in {"key1", "key2"})
       => LET u1 == getKeyUsageToday(youtubeApiUsage', now, "key1")
              u2 == getKeyUsageToday(youtubeApiUsage', now, "key2")
          IN (canUse(u1, QUOTA_COSTS.SEARCH) /\ canUse(u2, QUOTA_COSTS.SEARCH))
               => /\ u1.quotaUsed - u2.quotaUsed <= QUOTA_COSTS.SEARCH
                  /\ u2.quotaUsed - u1.quotaUsed <= QUOTA_COSTS.SEARCH]_vars

\* the second round has been charged to key2 after the first was charged to
\* key1: the two keys are level again
C35_Witness ==
  /\ last.op = "testRotation"
  /\ last.ret = "key2"
  /\ getKeyUsageToday(youtubeApiUsage, now, "key1").quotaUsed
       = getKeyUsageToday(youtubeApiUsage, now, "key2").quotaUsed
  /\ getKeyUsageToday(youtubeApiUsage, now, "key1").quotaUsed > 0
  /\ ~getKeyUsageToday(youtubeApiUsage, now, "key1").quotaExhausted

(***************************************************************************)
(* Spellings of a cache key                                                *)
(***************************************************************************)
\* the two characters are the same letter, in either case
C36_SameLetter(c, d) ==
  c = d \/ {c, d} = {"a", "A"} \/ {c, d} = {"t", "T"}

\* str is core with white space before and after it
C36_Padded(str, core) ==
  \E l \in 0..Len(str) :
    /\ l + Len(core) <= Len(str)
    /\ \A i \in 1..Len(str) :
         IF i > l /\ i <= l + Len(core) THEN str[i] = core[i - l]
                                         ELSE str[i] = " "

\* the two strings differ at most in letter case and in leading and
\* trailing white space
C36_SameSpelling(s1, s2) ==
  \E l1 \in 0..Len(s1), n \in 0..Len(s1) :
    /\ l1 + n <= Len(s1)
    /\ (n > 0 => s1[l1 + 1] # " " /\ s1[l1 + n] # " ")
    /\ C36_Padded(s1, SubSeq(s1, l1 + 1, l1 + n))
    /\ \E l2 \in 0..Len(s2) :
         /\ l2 + n <= Len(s2)
         /\ C36_Padded(s2, SubSeq(s2, l2 + 1, l2 + n))
         /\ \A i \in 1..n : C36_SameLetter(s1[l1 + i], s2[l2 + i])

\* the arguments a and b are spellings of one key
C36_SameKey(a, b) ==
  /\ C36_SameSpelling(LookupArgs[a].artist, LookupArgs[b].artist)
  /\ C36_SameSpelling(LookupArgs[a].title, LookupArgs[b].title)

\* C36: after saveToCache under one spelling of a key, getCachedMatch under
\* every spelling that differs only in letter case or in leading and
\* trailing white space returns the saved video; a lookup answers the same
\* for all such spellings; and no two rows of the cache are spellings of
\* one key
C36_SpellingsShareEntry ==
  /\ [](\A i, j \in 1..Len(youtubeCache) :
          (/\ C36_SameSpelling(youtubeCache[i].artist, youtubeCache[j].artist)
           /\ C36_SameSpelling(youtubeCache[i].title, youtubeCache[j].title))
            => i = j)
  /\ [][\A b \in 1..Len(LookupArgs) :
          /\ (last'.op = "saveToCache" /\ C36_SameKey(last'.arg, b)) =>
               LET m == getCachedMatch(youtubeCache', LookupArgs[b].artist,
                                       LookupArgs[b].title)
               IN /\ m.videoId = last'.ret.youtubeId
                  /\ m.durationSeconds = last'.ret.durationSeconds
          /\ (last'.op = "getCachedMatch" /\ C36_SameKey(last'.arg, b)) =>
               getCachedMatch(youtubeCache, LookupArgs[b].artist,
                              LookupArgs[b].title) = last'.ret]_vars

\* a lookup spelled with a leading blank and a capital has found the row
\* that is filed under the folded and trimmed spelling
C36_Witness ==
  /\ last.op = "getCachedMatch"
  /\ last.arg = 2
  /\ last.ret.cacheId # 0
  /\ youtubeCache[last.ret.cacheId].artist # LookupArgs[2].artist
  /\ youtubeCache[last.ret.cacheId].title # LookupArgs[2].title

\* the horizon of a sweep called with daysToKeep d (0: no argument)
C37_Horizon(d) == now - (IF d # 0 THEN d ELSE 90) * Day

\* the row is older than the horizon h and was last used before it
C37_Stale(row, h) == row.cachedAt < h /\ row.lastUsedAt < h

\* C37: cleanupOldCache deletes exactly the rows whose cachedAt and
\* lastUsedAt are both older than the horizon and leaves every other row as
\* it was; getCachedMatch and updateCacheUsage remove no row and change
\* neither the key of a row nor the video it holds
C37_SweepEvictsOnlyStale ==
  [][/\ last'.op = "cleanupOldCache" =>
          youtubeCache' =
            SelectSeq(youtubeCache,
                      LAMBDA row : ~C37_Stale(row, C37_Horizon(last'.arg)))
     /\ last'.op \in {"getCachedMatch", "updateCacheUsage"} =>
          /\ Len(youtubeCache') = Len(youtubeCache)
          /\ \A i \in 1..Len(youtubeCache) :
               /\ youtubeCache'[i].artist = youtubeCache[i].artist
               /\ youtubeCache'[i].title = youtubeCache[i].title
               /\ youtubeCache'[i].youtubeId = youtubeCache[i].youtubeId
               /\ youtubeCache'[i].durationSeconds
                    = youtubeCache[i].durationSeconds]_vars

\* a sweep has deleted a row and has kept another that was cached before
\* the horizon and used within it
C37_Witness ==
  /\ last.op = "cleanupOldCache"
  /\ \E i \in 1..Len(youtubeCache) :
       /\ youtubeCache[i].cachedAt < C37_Horizon(last.arg)
       /\ youtubeCache[i].lastUsedAt >= C37_Horizon(last.arg)

(***************************************************************************)
(* queueManager.ts: the loop of discoverAndQueueTracks with the counters   *)
(* of its result (addedCount, skippedCount, errorCount).  dseen counts the *)
(* candidates the loop has taken up and dinserted the rows addToQueue has  *)
(* inserted for the run.                                                   *)
(***************************************************************************)
\* return result: the counters l of the run are reported
CountReturn(p, l) ==
  /\ Goto(p, "idle")
  /\ loc' = [loc EXCEPT ![p] = LocInit]
  /\ last' = [op |-> "discoverAndQueueTracks",
              arg |-> [inserted |-> l.dinserted, processed |-> l.dseen],
              ret |-> [added |-> l.dadded, skipped |-> l.dskipped,
                       errors |-> l.derrors,
                       totalProcessed |->
                         l.dadded + l.dskipped + l.derrors]]

\* the loop moves to the next candidate, or the run ends
CountNext(p, l) ==
  IF l.dleft > 1
    THEN /\ Goto(p, "disc_track")
         /\ loc' = [loc EXCEPT ![p] = [l EXCEPT !.dleft = @ - 1]]
         /\ last' = Step
    ELSE CountReturn(p, l)

\* findBestMatch returns null: skippedCount++
CountNoMatch(p) ==
  /\ pc[p] = "disc_track"
  /\ CountNext(p, [loc[p] EXCEPT !.dskipped = @ + 1, !.dseen = @ + 1])
  /\ UNCHANGED <<radioVars, lookupVars>>

\* findBestMatch or addToQueue throws: errorCount++
CountError(p) ==
  /\ pc[p] = "disc_track"
  /\ CountNext(p, [loc[p] EXCEPT !.derrors = @ + 1, !.dseen = @ + 1])
  /\ UNCHANGED <<radioVars, lookupVars>>

\* addToQueue returns (a new id, the id of the existing row, or null):
\* addedCount++
CountAdd(p) ==
  /\ pc[p] = "disc_track"
  /\ \E d \in Ids : addToQueue(d)
  /\ Goto(p, "disc_status")
  /\ loc' = [loc EXCEPT ![p].dadded = @ + 1, ![p].dseen = @ + 1,
                        ![p].dinserted =
                          @ + (IF last'.ret = "inserted" THEN 1 ELSE 0)]
  /\ UNCHANGED lookupVars

\* getQueueStatus after the enqueue: stop when the queue is full
CountStatus(p) ==
  /\ pc[p] = "disc_status"
  /\ IF Len(queue) >= MAX_QUEUE_SIZE THEN CountReturn(p, loc[p])
                                     ELSE CountNext(p, loc[p])
  /\ UNCHANGED <<radioVars, lookupVars>>

NextCounts ==
  \/ \E p \in Crons : CronStart(p)
  \/ \E p \in Crons : DiscCheck(p)
  \/ \E p \in Crons : CountNoMatch(p)
  \/ \E p \in Crons : CountError(p)
  \/ \E p \in Crons : CountAdd(p)
  \/ \E p \in Crons : CountStatus(p)
  \/ advanceToNextTrack /\ UNCHANGED <<procVars, lookupVars>>

SpecCounts == Init /\ [][NextCounts]_vars

\* C38: the added count a discovery run reports is the number of queue rows
\* the run inserted, and added + skipped + errors is the number of
\* candidates it processed
C38_AddedCountsInsertions ==
  [][last'.op = "discoverAndQueueTracks"
       => /\ last'.ret.added = last'.arg.inserted
          /\ last'.ret.added + last'.ret.skipped + last'.ret.errors
               = last'.arg.processed]_vars

(***************************************************************************)
(* clearQueue called by a controller, or refused to a listener, on a queue *)
(* that nothing else touches while the action runs                         *)
(***************************************************************************)
NextClear ==
  \/ \E u \in UserIds, keepCount \in 0..MAX_QUEUE_SIZE :
       ClearStart(u, keepCount)
  \/ ClearRead
  \/ ClearRemove
  \/ \E d \in CatalogIds :
       /\ pc["clear"] = "idle"
       /\ Len(queue) < MAX_QUEUE_SIZE
       /\ addToQueue(d)
       /\ UNCHANGED <<procVars, lookupVars>>

SpecClear == Init /\ [][NextClear]_vars

\* C39: a clearQueue(keepCount) that succeeds removes rows behind the first
\* keepCount only and leaves the others in their order; when it returns the
\* queue holds at most keepCount rows (none for keepCount 0), newSize is the
\* length of the queue and removedCount is originalSize less that length
C39_ClearKeepsFront ==
  [][/\ (pc["clear"] = "clear_remove" /\ queue' # queue) =>
          \E i \in 1..Len(queue) :
            /\ i > loc["clear"].dcount
            /\ queue' = RemoveAt(queue, i)
     /\ (/\ last'.op = "clearQueue"
         /\ pc["clear"] \in {"clear_read", "clear_remove"}
         /\ (pc["clear"] = "clear_remove" => queue' # queue)) =>
          /\ Len(queue') <= loc["clear"].dcount
          /\ last'.ret.newSize = Len(queue')
          /\ last'.ret.removedCount = last'.ret.originalSize - Len(queue')]_vars
====
